---- MODULE Spec2Model ----
(***************************************************************************)
(* The policy gate of the WDK manager (src/src/wdk-manager.js): the        *)
(* registered policy list, the per-instance policy map / wrapped set /     *)
(* installed method, and one invocation of a gated method followed through *)
(* runPolicies.                                                            *)
(***************************************************************************)
EXTENDS Integers, Sequences, FiniteSets, TLC

(***************************************************************************)
(* Bounds of the model.                                                    *)
(***************************************************************************)
\* longest registered policy list that is explored
MaxPolicies == 2

\* most middlewares registered for one blockchain
MaxMiddlewares == 2

\* most protocol registrations, manager-wide and on the account together
MaxProtocols == 2

(***************************************************************************)
(* Policy objects.  A policy is identified by its object identity (its id  *)
(* here); "" stands for an absent (falsy) string field.                    *)
(***************************************************************************)
\* wallet, protocol.blockchain and protocol.label are the fields the gate
\* reads; chain is a top-level "blockchain" field, which it does not read
NoTarget == [wallet |-> "", hasProtocol |-> FALSE, blockchain |-> "", label |-> "",
             chain |-> ""]

\* the targets of the policies T01 .. T18: every combination of no wallet or
\* one of two wallets with no protocol, an empty protocol, a protocol with a
\* blockchain, with a label or with both
MatchTargets ==
  "T01" :> [wallet |-> "", hasProtocol |-> FALSE, blockchain |-> "", label |-> "",
           chain |-> ""]
  @@ "T02" :> [wallet |-> "", hasProtocol |-> TRUE, blockchain |-> "", label |-> "",
           chain |-> ""]
  @@ "T03" :> [wallet |-> "", hasProtocol |-> TRUE, blockchain |-> "eth", label |-> "",
           chain |-> ""]
  @@ "T04" :> [wallet |-> "", hasProtocol |-> TRUE, blockchain |-> "", label |-> "main",
           chain |-> ""]
  @@ "T05" :> [wallet |-> "", hasProtocol |-> TRUE, blockchain |-> "eth", label |-> "main",
           chain |-> ""]
  @@ "T06" :> [wallet |-> "", hasProtocol |-> TRUE, blockchain |-> "ton", label |-> "alt",
           chain |-> ""]
  @@ "T07" :> [wallet |-> "eth", hasProtocol |-> FALSE, blockchain |-> "", label |-> "",
           chain |-> ""]
  @@ "T08" :> [wallet |-> "eth", hasProtocol |-> TRUE, blockchain |-> "", label |-> "",
           chain |-> ""]
  @@ "T09" :> [wallet |-> "eth", hasProtocol |-> TRUE, blockchain |-> "eth", label |-> "",
           chain |-> ""]
  @@ "T10" :> [wallet |-> "eth", hasProtocol |-> TRUE, blockchain |-> "", label |-> "main",
           chain |-> ""]
  @@ "T11" :> [wallet |-> "eth", hasProtocol |-> TRUE, blockchain |-> "eth", label |-> "main",
           chain |-> ""]
  @@ "T12" :> [wallet |-> "eth", hasProtocol |-> TRUE, blockchain |-> "ton", label |-> "alt",
           chain |-> ""]
  @@ "T13" :> [wallet |-> "ton", hasProtocol |-> FALSE, blockchain |-> "", label |-> "",
           chain |-> ""]
  @@ "T14" :> [wallet |-> "ton", hasProtocol |-> TRUE, blockchain |-> "", label |-> "",
           chain |-> ""]
  @@ "T15" :> [wallet |-> "ton", hasProtocol |-> TRUE, blockchain |-> "eth", label |-> "",
           chain |-> ""]
  @@ "T16" :> [wallet |-> "ton", hasProtocol |-> TRUE, blockchain |-> "", label |-> "main",
           chain |-> ""]
  @@ "T17" :> [wallet |-> "ton", hasProtocol |-> TRUE, blockchain |-> "eth", label |-> "main",
           chain |-> ""]
  @@ "T18" :> [wallet |-> "ton", hasProtocol |-> TRUE, blockchain |-> "ton", label |-> "alt",
           chain |-> ""]

PolicyDef(p) ==
  CASE p \in DOMAIN MatchTargets ->
                   [name |-> p, evaluate |-> TRUE, target |-> MatchTargets[p],
                    methodKind |-> "list", method |-> <<"send", "swap">>]
    [] p = "P1" -> [name |-> "p1", evaluate |-> TRUE, target |-> NoTarget,
                    methodKind |-> "string", method |-> <<"send">>]
    [] p = "P2" -> [name |-> "p2", evaluate |-> TRUE,
                    target |-> [NoTarget EXCEPT !.wallet = "eth"],
                    methodKind |-> "list",
                    method |-> <<"send", "sign", "send">>]
    [] p = "P3" -> [name |-> "p3", evaluate |-> TRUE, target |-> NoTarget,
                    methodKind |-> "list",
                    method |-> <<"getSwapProtocol", "send">>]
    [] p = "BAD" -> [name |-> "", evaluate |-> TRUE, target |-> NoTarget,
                    methodKind |-> "string", method |-> <<"send">>]
    [] p = "P4" -> [name |-> "p4", evaluate |-> TRUE, target |-> NoTarget,
                    methodKind |-> "none", method |-> <<>>]
    [] p = "P5" -> [name |-> "p5", evaluate |-> TRUE,
                    target |-> [NoTarget EXCEPT !.hasProtocol = TRUE,
                                                !.blockchain = "eth", !.label = "main"],
                    methodKind |-> "string", method |-> <<"swap">>]
    [] p = "P6" -> [name |-> "p6", evaluate |-> TRUE, target |-> NoTarget,
                    methodKind |-> "string", method |-> <<"swap">>]
    [] p = "P7" -> [name |-> "p7", evaluate |-> TRUE,
                    target |-> [NoTarget EXCEPT !.chain = "eth"],
                    methodKind |-> "string", method |-> <<"send">>]
    [] p = "NOFN" -> [name |-> "nofn", evaluate |-> FALSE, target |-> NoTarget,
                    methodKind |-> "string", method |-> <<"send">>]
    [] OTHER -> [name |-> "noop", evaluate |-> FALSE, target |-> NoTarget,
                    methodKind |-> "none", method |-> <<>>]

\* the batches handed to registerPolicies
Batches == {<<"P1">>, <<"P2">>, <<"P3">>, <<"P1", "P2">>, <<"P2", "BAD">>}

(***************************************************************************)
(* Instances: the account objects of index 0 and 1 handed back by the      *)
(* wallet registered for "eth".  The wallet hands back the same account    *)
(* object for the same index.  The manager starts with that wallet         *)
(* registered.                                                             *)
(***************************************************************************)
Inst == {"accE0", "accE1"}

\* the blockchain an account was derived for; accT0 is the account of
\* index 0 of the wallet registered for "ton"
InstWallet(i) == IF i = "accT0" THEN "ton" ELSE "eth"

\* variant: getAccount passes { blockchain } to _withPolicyGate
AccountScopeAsBlockchain(i) == [NoTarget EXCEPT !.chain = InstWallet(i)]

\* the scope getAccount passes to _withPolicyGate
AccountScope(i) == [NoTarget EXCEPT !.wallet = InstWallet(i)]

\* the swap protocol instances followed: the one getSwapProtocol(label)
\* hands back on account accE0 or accT0
Labels == {"main", "alt"}

ProtocolInst == {"swE0main", "swE0alt", "swT0main", "swT0alt"}

ProtoSlot(a, label) ==
  IF a = "accT0" THEN (IF label = "main" THEN "swT0main" ELSE "swT0alt")
  ELSE (IF label = "main" THEN "swE0main" ELSE "swE0alt")

ProtoAccount(s) == IF s \in {"swT0main", "swT0alt"} THEN "accT0" ELSE "accE0"

ProtoLabel(s) == IF s \in {"swE0main", "swT0main"} THEN "main" ELSE "alt"

\* variant: the accessor passes the wallet of the account along with the protocol
ProtocolScopeWithWallet(s) ==
  [NoTarget EXCEPT !.wallet = InstWallet(ProtoAccount(s)), !.hasProtocol = TRUE,
                   !.blockchain = InstWallet(ProtoAccount(s)), !.label = ProtoLabel(s)]

\* the scope the accessor passes to _withPolicyGate: { protocol: { blockchain, label } }
ProtocolScope(s) ==
  [NoTarget EXCEPT !.hasProtocol = TRUE, !.blockchain = InstWallet(ProtoAccount(s)),
                   !.label = ProtoLabel(s)]

\* the target an instance was gated with
Scope(i) == IF i \in ProtocolInst THEN ProtocolScope(i) ELSE AccountScope(i)

\* the members _registerProtocols (re)installs on an account
Accessors == {"getSwapProtocol"}

\* the method names policies mention and the members that are called;
\* these accounts expose no "sign", and only accE2 has the read-only
\* "getAddress"
Methods == {"send", "sign", "getSwapProtocol", "swap", "getAddress"}

\* the bridge, lending and fiat protocol instances followed: the one
\* get<Type>Protocol(label) hands back on account accE0.  They expose none
\* of the method names below.
OtherProtocolInst ==
  {"brE0main", "brE0alt", "leE0main", "leE0alt", "fiE0main", "fiE0alt"}

\* typeof instance[methodName] === 'function'
IsCallable(i, m) ==
  IF i \in ProtocolInst THEN m = "swap"
  ELSE IF i \in OtherProtocolInst THEN FALSE
  ELSE IF i = "accE2" THEN m \in {"send", "getAddress"} \cup Accessors
  ELSE m \in {"send"} \cup Accessors

ArgLists == {<<>>, <<"v", "w">>}

Undefined == "undefined"

VARIABLES
  policies,   \* this._policies
  policyMap,  \* instance[INSTANCE_POLICY_SYMBOL]: method name -> chain
  wrapped,    \* instance[INSTANCE_WRAPPED_SYMBOL]
  fn,         \* instance[methodName]: number of checkpoint closures around the original
  held,       \* the caller holds a reference to the instance
  gatedLen,   \* history: length of this._policies at the last gating pass of the instance (-1: none)
  regated,    \* history: the last gating pass of the instance found this._policies as the pass before it did
  call,       \* the invocation in progress, or the one that finished in the latest step
  wallets,    \* this._wallets: the blockchains a wallet is registered for
  protocols,  \* this._protocols.swap: the <<blockchain, label>> pairs registered manager-wide
              \* (where all four types are followed: <<type, blockchain, label, class>>)
  acctProtocols, \* the "protocols.swap" registry of the accessors installed on an account
                 \* (where all four types are followed: <<type, label, class>>)
  ret,        \* what the latest manager call a specification observes returned or threw
  mw          \* this._middlewares, the getAccount call in progress with the
              \* middleware calls it has made, and the wallet.dispose() calls of
              \* the latest dispose()

vars == <<policies, policyMap, wrapped, fn, held, gatedLen, regated, call,
          wallets, protocols, acctProtocols, ret, mw>>

\* no middleware registered, no getAccount call in progress
IdleMw == [reg |-> [b \in {"eth", "ton"} |-> <<>>], status |-> "idle", inst |-> "",
           k |-> 0, running |-> FALSE, log |-> <<>>,
           disposed |-> [b \in {"eth", "ton"} |-> 0]]

(***************************************************************************)
(* One invocation of instance[methodName](...args), followed from the call *)
(* to its outcome.  A wrapper is the async closure _withPolicyGate         *)
(* installs; runPolicies is its "for ... await policy.evaluate" loop.      *)
(***************************************************************************)
NoOutcome == [kind |-> "none", val |-> <<>>, err |-> "", by |-> "", policy |-> "",
              method |-> "", target |-> NoTarget, message |-> <<>>]

IdleCall == [status |-> "idle", inst |-> "", method |-> "", args |-> <<>>, regLen |-> 0,
             depth |-> 0, began |-> <<>>, k |-> 0, evaluated |-> <<>>, inputs |-> <<>>,
             results |-> <<>>,
             origCalls |-> 0, origArgs |-> <<>>, origThis |-> "",
             origOutcome |-> NoOutcome, outcome |-> NoOutcome]

\* const params = args[0]
Params(args) == IF Len(args) > 0 THEN args[1] ELSE Undefined

\* what the unwrapped method returns for a receiver and an argument list
OrigResult(this, m, args) == <<"result", this, m, args>>

\* the outcomes the unwrapped method can have; with no protocol registered
\* the accessor throws "No swap protocol registered for label"
OrigOutcomes(m) == IF m \in Accessors THEN {"error"} ELSE {"value", "error"}

\* variant: the whole argument list is handed over as params
EvalInputWithArgs(c) == [method |-> c.method, params |-> c.args, target |-> Scope(c.inst)]

\* the { method, params, target } object handed to evaluate
EvalInput(c) == [method |-> c.method, params |-> Params(c.args),
                 target |-> Scope(c.inst)]

\* JSON.stringify(target.protocol) of { blockchain, label }, as the pieces
\* of the string
StringifyProtocol(target) ==
  <<"{\"blockchain\":\"", target.blockchain, "\",\"label\":\"", target.label, "\"}">>

\* variant: a target without wallet is described as global
TargetDescWalletOrGlobal(target) ==
  IF target.wallet # "" THEN <<"wallet: ", target.wallet>> ELSE <<"global">>

\* targetDesc of the error message
TargetDesc(target) ==
  IF target.wallet # "" THEN <<"wallet: ", target.wallet>>
  ELSE IF target.hasProtocol THEN <<"protocol: ", StringifyProtocol(target)>>
  ELSE <<"global">>

\* new PolicyViolationError(policy.name, method, target); the message is
\* kept as the pieces of its template
PolicyViolationError(name, m, target) ==
  [NoOutcome EXCEPT !.kind = "error", !.err = "PolicyViolationError", !.policy = name,
                    !.method = m, !.target = target,
                    !.message = <<"Policy \"", name, "\" rejected method \"", m,
                                  "\" for ", TargetDesc(target)>>]

\* the unwrapped method runs with receiver this and argument list args
Original(c, this, args, o) ==
  [c EXCEPT !.origCalls = @ + 1, !.origArgs = args, !.origThis = this,
            !.origOutcome = IF o = "value"
                            THEN [NoOutcome EXCEPT !.kind = "value",
                                                   !.val = OrigResult(this, c.method, args)]
                            ELSE [NoOutcome EXCEPT !.kind = "error",
                                                   !.err = "OriginalError"]]

\* the call has produced its outcome
Finish(c, out) ==
  [c EXCEPT !.status = IF out.kind = "value" THEN "returned" ELSE "failed",
            !.outcome = out]

RECURSIVE runPolicies(_, _, _)

\* variant: the wrapper hands only params to the original
wrapperReturnParamsOnly(c, chain, o) ==
  IF c.depth > 1 THEN runPolicies([c EXCEPT !.depth = @ - 1, !.k = 0], chain, o)
  ELSE LET r == Original([c EXCEPT !.depth = 0], c.inst, <<Params(c.args)>>, o)
       IN Finish(r, r.origOutcome)

\* the wrapper after "await this.runPolicies(...)": return originalFn(...args),
\* where originalFn = instance[methodName].bind(instance); when the installed
\* function is a wrapper around a wrapper, the inner wrapper runs next
wrapperReturn(c, chain, o) ==
  IF c.depth > 1 THEN runPolicies([c EXCEPT !.depth = @ - 1, !.k = 0], chain, o)
  ELSE LET r == Original([c EXCEPT !.depth = 0], c.inst, c.args, o)
       IN Finish(r, r.origOutcome)

\* variant: every remaining evaluate is started at once and awaited together
runPoliciesAtOnce(c, chain, o) ==
  IF c.k < Len(chain)
  THEN [c EXCEPT !.k = Len(chain),
                 !.evaluated = @ \o SubSeq(chain, c.k + 1, Len(chain)),
                 !.inputs = @ \o [n \in 1..(Len(chain) - c.k) |-> EvalInput(c)],
                 !.results = @ \o [n \in 1..(Len(chain) - c.k) |-> "pending"]]
  ELSE wrapperReturn(c, chain, o)

\* one step of "for (const policy of policies)": the array iterator reads the
\* live array, then evaluate is called and awaited
runPolicies(c, chain, o) ==
  IF c.k < Len(chain)
  THEN [c EXCEPT !.k = @ + 1, !.evaluated = Append(@, chain[c.k + 1]),
                 !.inputs = Append(@, EvalInput(c)),
                 !.results = Append(@, "pending")]
  ELSE wrapperReturn(c, chain, o)

\* variant: a falsy result is ignored and the loop goes on
onResultIgnoresFalsy(c, chain, j, r, o) ==
  LET c1 == [c EXCEPT !.results[j] = r]
  IN IF r = "throw"
     THEN Finish(c1, [NoOutcome EXCEPT !.kind = "error", !.err = "EvaluateError",
                                       !.by = c.evaluated[j]])
     ELSE runPolicies(c1, chain, o)

\* variant: a falsy result leaves the loop and the wrapper goes on to the original
onResultBreaks(c, chain, j, r, o) ==
  LET c1 == [c EXCEPT !.results[j] = r]
  IN CASE r = "throw" -> Finish(c1, [NoOutcome EXCEPT !.kind = "error",
                                        !.err = "EvaluateError", !.by = c.evaluated[j]])
       [] r = "false" -> wrapperReturn(c1, chain, o)
       [] OTHER -> runPolicies(c1, chain, o)

\* variant: a failing evaluate is caught and counted as a falsy result
onResultCatches(c, chain, j, r, o) ==
  LET c1 == [c EXCEPT !.results[j] = r]
  IN IF r \in {"throw", "false"}
     THEN Finish(c1, PolicyViolationError(PolicyDef(c.evaluated[j]).name, c.method,
                                          EvalInput(c).target))
     ELSE runPolicies(c1, chain, o)

\* the awaited result of evaluation j has settled with r; an evaluate that
\* throws synchronously has the same outcome as one whose promise rejects
onResult(c, chain, j, r, o) ==
  LET c1 == [c EXCEPT !.results[j] = r]
      p == c.evaluated[j]
  IN CASE r = "throw" -> Finish(c1, [NoOutcome EXCEPT !.kind = "error",
                                        !.err = "EvaluateError", !.by = p])
       [] r = "false" -> Finish(c1, PolicyViolationError(PolicyDef(p).name, c.method,
                                                         EvalInput(c).target))
       [] OTHER -> runPolicies(c1, chain, o)

\* variant: the wrapper takes its policies from this._policies
wrapperPoliciesFromRegistry(pm, i, m) ==
  SelectSeq(policies, LAMBDA p : \E n \in 1..Len(PolicyDef(p).method) :
                                   PolicyDef(p).method[n] = m)

\* const policies = methodPolicyMap.get(methodName) || []
wrapperPolicies(pm, i, m) == pm[i][m]

InFlight(c) == {j \in 1..Len(c.results) : c.results[j] = "pending"}

EvalResults == {"true", "false", "throw"}

\* the record of a finished invocation is kept until the next operation
Forget(c) == IF c.status = "running" THEN c ELSE IdleCall

(***************************************************************************)
(* registerPolicies                                                        *)
(***************************************************************************)
\* variant: only the name of an entry is validated
IsValidPolicyByName(p) == PolicyDef(p).name # ""

\* !p.name || typeof p.evaluate !== 'function' is false
IsValidPolicy(p) == PolicyDef(p).name # "" /\ PolicyDef(p).evaluate

\* the entries of the batch pushed before the loop returns or throws
RECURSIVE PushedPrefix(_)
PushedPrefix(batch) ==
  IF batch = <<>> \/ ~IsValidPolicy(Head(batch)) THEN <<>>
  ELSE <<Head(batch)>> \o PushedPrefix(Tail(batch))

registerPolicies(batch) ==
  /\ Len(policies) + Len(PushedPrefix(batch)) <= MaxPolicies
  /\ policies' = policies \o PushedPrefix(batch)
  /\ call' = Forget(call)
  /\ UNCHANGED <<policyMap, wrapped, fn, held, gatedLen, regated, wallets, protocols,
                 acctProtocols, mw>>

(***************************************************************************)
(* _withPolicyGate                                                         *)
(***************************************************************************)
\* variant: the wallet of the target is not compared
TargetMatchesAnyWallet(pt, scope) ==
  pt.hasProtocol =>
    /\ ~(pt.blockchain # "" /\ pt.blockchain # scope.blockchain)
    /\ ~(pt.label # "" /\ pt.label # scope.label)

\* variant: the label of a protocol target is not compared
TargetMatchesAnyLabel(pt, scope) ==
  /\ ~(pt.wallet # "" /\ pt.wallet # scope.wallet)
  /\ pt.hasProtocol => ~(pt.blockchain # "" /\ pt.blockchain # scope.blockchain)

\* variant: the protocol of the target is compared only with a protocol scope
TargetMatchesSkipsAccounts(pt, scope) ==
  /\ ~(pt.wallet # "" /\ pt.wallet # scope.wallet)
  /\ (pt.hasProtocol /\ scope.hasProtocol) =>
       /\ ~(pt.blockchain # "" /\ pt.blockchain # scope.blockchain)
       /\ ~(pt.label # "" /\ pt.label # scope.label)

\* variant: a top-level blockchain of the target is compared with the wallet
\* of the scope
TargetMatchesByBlockchain(pt, scope) ==
  /\ ~(pt.chain # "" /\ pt.chain # scope.wallet)
  /\ ~(pt.wallet # "" /\ pt.wallet # scope.wallet)
  /\ pt.hasProtocol =>
       /\ ~(pt.blockchain # "" /\ pt.blockchain # scope.blockchain)
       /\ ~(pt.label # "" /\ pt.label # scope.label)

\* target matching of one policy against the scope of the instance
TargetMatches(pt, scope) ==
  /\ ~(pt.wallet # "" /\ pt.wallet # scope.wallet)
  /\ pt.hasProtocol =>
       /\ ~(pt.blockchain # "" /\ pt.blockchain # scope.blockchain)
       /\ ~(pt.label # "" /\ pt.label # scope.label)

Includes(list, p) == \E k \in 1..Len(list) : list[k] = p

\* variant: the policy is put at the front of the chain
PushPolicyFront(pm, i, m, p) ==
  [pm EXCEPT ![i][m] = IF Includes(@, p) THEN @ ELSE <<p>> \o @]

\* variant: the policy is pushed without looking for it in the chain
PushPolicyAlways(pm, i, m, p) == [pm EXCEPT ![i][m] = Append(@, p)]

\* if (!list.includes(policy)) list.push(policy)
PushPolicy(pm, i, m, p) ==
  [pm EXCEPT ![i][m] = IF Includes(@, p) THEN @ ELSE Append(@, p)]

\* variant: the wrapper is installed on the prototype the accounts share
InstallWrapperOnPrototype(f, i, m) == [j \in DOMAIN f |-> [f[j] EXCEPT ![m] = @ + 1]]

\* instance[methodName] = async (...args) => { ... originalFn(...args) }
InstallWrapper(f, i, m) == [f EXCEPT ![i][m] = @ + 1]

\* the body of the loop over the method names of one policy
RECURSIVE GateMethods(_, _, _, _, _)

\* variant: a listed name is gated whether or not the instance has the method
GateMethodsOfAnyName(g, i, p, names, n) ==
  IF n > Len(names) THEN g
  ELSE LET m == names[n]
           g1 == [g EXCEPT !.policyMap = PushPolicy(@, i, m, p)]
           g2 == IF m \in g1.wrapped[i] THEN g1
                 ELSE [g1 EXCEPT !.fn = InstallWrapper(@, i, m),
                                 !.wrapped[i] = @ \cup {m}]
       IN GateMethods(g2, i, p, names, n + 1)

GateMethods(g, i, p, names, n) ==
  IF n > Len(names) THEN g
  ELSE LET m == names[n] IN
    IF ~IsCallable(i, m) THEN GateMethods(g, i, p, names, n + 1)
    ELSE LET g1 == [g EXCEPT !.policyMap = PushPolicy(@, i, m, p)]
             g2 == IF m \in g1.wrapped[i] THEN g1
                   ELSE [g1 EXCEPT !.fn = InstallWrapper(@, i, m),
                                   !.wrapped[i] = @ \cup {m}]
         IN GateMethods(g2, i, p, names, n + 1)

\* the loop over this._policies, from index n; a policy without method
\* reaches "methods = Set()", which throws a TypeError and ends the pass
RECURSIVE GatePolicies(_, _, _, _, _)

\* variant: the target of a policy is not compared with the scope
GatePoliciesOfAnyTarget(g, pols, i, scope, n) ==
  IF n > Len(pols) THEN g
  ELSE LET d == PolicyDef(pols[n]) IN
    IF d.methodKind = "none" THEN [g EXCEPT !.threw = TRUE]
    ELSE GatePolicies(GateMethods(g, i, pols[n], d.method, 1), pols, i, scope, n + 1)

GatePolicies(g, pols, i, scope, n) ==
  IF n > Len(pols) THEN g
  ELSE LET d == PolicyDef(pols[n]) IN
    IF ~TargetMatches(d.target, scope) THEN GatePolicies(g, pols, i, scope, n + 1)
    ELSE IF d.methodKind = "none" THEN [g EXCEPT !.threw = TRUE]
    ELSE GatePolicies(GateMethods(g, i, pols[n], d.method, 1), pols, i, scope, n + 1)

_withPolicyGate(g, pols, i, scope) == GatePolicies(g, pols, i, scope, 1)

(***************************************************************************)
(* getAccount / getAccountByPath                                           *)
(***************************************************************************)
\* account.registerProtocol = ..., account.getSwapProtocol = ...: fresh closures
_registerProtocols(f, i) == [f EXCEPT ![i] = [m \in Methods |-> IF m \in Accessors THEN 0 ELSE @[m]]]

\* variant: the gate is installed before the accessors are
getAccountTailGateFirst(i) ==
  LET g0 == [policyMap |-> policyMap, wrapped |-> wrapped, fn |-> fn, threw |-> FALSE]
      g == _withPolicyGate(g0, policies, i, AccountScope(i))
  IN /\ policyMap' = g.policyMap
     /\ wrapped' = g.wrapped
     /\ fn' = _registerProtocols(g.fn, i)
     /\ held' = IF g.threw THEN held ELSE [held EXCEPT ![i] = TRUE]
     /\ gatedLen' = [gatedLen EXCEPT ![i] = Len(policies)]
     /\ regated' = [regated EXCEPT ![i] = (gatedLen[i] = Len(policies))]
     /\ acctProtocols' = [acctProtocols EXCEPT ![i] = {}]
     /\ call' = Forget(call)
     /\ UNCHANGED <<policies, wallets, protocols>>

\* getAccount after its awaits: _registerProtocols, _withPolicyGate, return
getAccountTail(i) ==
  LET g0 == [policyMap |-> policyMap, wrapped |-> wrapped,
             fn |-> _registerProtocols(fn, i), threw |-> FALSE]
      g == _withPolicyGate(g0, policies, i, AccountScope(i))
  IN /\ policyMap' = g.policyMap
     /\ wrapped' = g.wrapped
     /\ fn' = g.fn
     /\ held' = IF g.threw THEN held ELSE [held EXCEPT ![i] = TRUE]
     /\ gatedLen' = [gatedLen EXCEPT ![i] = Len(policies)]
     /\ regated' = [regated EXCEPT ![i] = (gatedLen[i] = Len(policies))]
     /\ acctProtocols' = [acctProtocols EXCEPT ![i] = {}]
     /\ call' = Forget(call)
     /\ UNCHANGED <<policies, wallets, protocols>>

\* getAccount / getAccountByPath on a manager without middleware for the
\* blockchain
getAccount(i) == InstWallet(i) \in wallets /\ getAccountTail(i) /\ UNCHANGED mw

\* variant: a call that repeats a rejected one goes on after the policies
\* that had passed
invokeResumesChain(i, m, args) ==
  /\ held[i]
  /\ IsCallable(i, m)
  /\ call.status # "running"
  /\ \E o \in OrigOutcomes(m) :
       LET resumed == call.status = "failed" /\ call.inst = i /\ call.method = m
                      /\ Len(call.evaluated) > 1
           c0 == [IdleCall EXCEPT !.status = "running", !.inst = i, !.method = m,
                                  !.args = args, !.regLen = Len(policies),
                                  !.depth = fn[i][m],
                                  !.began = wrapperPolicies(policyMap, i, m),
                                  !.k = IF resumed THEN Len(call.evaluated) - 1 ELSE 0]
       IN call' = IF c0.depth = 0
                  THEN LET r == Original(c0, i, args, o) IN Finish(r, r.origOutcome)
                  ELSE runPolicies(c0, wrapperPolicies(policyMap, i, m), o)
  /\ UNCHANGED <<policies, policyMap, wrapped, fn, held, gatedLen, regated, wallets,
                 protocols, acctProtocols, mw>>

\* the caller invokes instance[m](...args)
invoke(i, m, args) ==
  /\ held[i]
  /\ IsCallable(i, m)
  /\ call.status # "running"
  /\ \E o \in OrigOutcomes(m) :
       LET c0 == [IdleCall EXCEPT !.status = "running", !.inst = i, !.method = m,
                                  !.args = args, !.regLen = Len(policies),
                                  !.depth = fn[i][m],
                                  !.began = wrapperPolicies(policyMap, i, m)]
       IN call' = IF c0.depth = 0
                  THEN LET r == Original(c0, i, args, o) IN Finish(r, r.origOutcome)
                  ELSE runPolicies(c0, wrapperPolicies(policyMap, i, m), o)
  /\ UNCHANGED <<policies, policyMap, wrapped, fn, held, gatedLen, regated, wallets,
                 protocols, acctProtocols, mw>>

\* a pending evaluate of the invocation settles
settle(j, r) ==
  /\ call.status = "running"
  /\ j \in InFlight(call)
  /\ \E o \in OrigOutcomes(call.method) :
       call' = onResult(call, wrapperPolicies(policyMap, call.inst, call.method), j, r, o)
  /\ UNCHANGED <<policies, policyMap, wrapped, fn, held, gatedLen, regated, wallets,
                 protocols, acctProtocols, mw>>

Init ==
  /\ policies = <<>>
  /\ policyMap = [i \in Inst |-> [m \in Methods |-> <<>>]]
  /\ wrapped = [i \in Inst |-> {}]
  /\ fn = [i \in Inst |-> [m \in Methods |-> 0]]
  /\ held = [i \in Inst |-> FALSE]
  /\ gatedLen = [i \in Inst |-> -1]
  /\ regated = [i \in Inst |-> FALSE]
  /\ call = IdleCall
  /\ wallets = {"eth"}
  /\ protocols = {}
  /\ acctProtocols = [i \in Inst |-> {}]
  /\ ret = "none"
  /\ mw = IdleMw

Next ==
  \/ \E batch \in Batches : registerPolicies(batch) /\ UNCHANGED ret
  \/ \E i \in Inst : getAccount(i) /\ UNCHANGED ret
  \/ \E i \in Inst, m \in Methods, args \in ArgLists : invoke(i, m, args) /\ UNCHANGED ret
  \/ \E j \in 1..Len(call.results), r \in EvalResults : settle(j, r) /\ UNCHANGED ret

Spec == Init /\ [][Next]_vars

(***************************************************************************)
(* Properties of one invocation of a gated method.                         *)
(***************************************************************************)
\* the chain of the method the followed invocation is about
CallChain == IF call.status = "idle" THEN <<>> ELSE policyMap[call.inst][call.method]

Finished == call.status \in {"returned", "failed"}

\* C1: an invocation evaluates the policies in chain order and stops at the
\* first falsy result: P1..Pk were each evaluated once, nothing after Pk was
\* evaluated, and the invocation fails with a PolicyViolationError naming Pk.
ShortCircuitAtFirstFalsy ==
  \A j \in 1..Len(call.results) :
    call.results[j] = "false" =>
      /\ j = Len(call.evaluated)
      /\ call.evaluated = SubSeq(CallChain, 1, j)
      /\ \A a, b \in 1..j : a # b => call.evaluated[a] # call.evaluated[b]
      /\ \A a \in 1..(j - 1) : call.results[a] = "true"
      /\ call.status = "failed"
      /\ call.outcome.err = "PolicyViolationError"
      /\ call.outcome.policy = PolicyDef(CallChain[j]).name

\* a policy rejected while a later policy of the chain was still to come
RejectedBeforeChainEnd ==
  \E j \in 1..Len(call.results) :
    call.results[j] = "false" /\ j < Len(CallChain) /\ call.status = "failed"

\* C2: when a policy of the chain returns falsy, the original method is not
\* invoked for that invocation and the caller observes a rejection.
RejectionNeverReachesOriginal ==
  (\E j \in 1..Len(call.results) : call.results[j] = "false") =>
    /\ call.origCalls = 0
    /\ call.status = "failed"
    /\ call.outcome.kind = "error"

\* a rejected invocation: the caller got an error and the original did not run
RejectedCall ==
  /\ call.status = "failed"
  /\ call.origCalls = 0
  /\ \E j \in 1..Len(call.results) : call.results[j] = "false"

\* C3: when every policy of the chain returns truthy, the original method is
\* invoked exactly once, bound to the instance, with the caller's argument
\* list, and the outcome of the call is the original's outcome unchanged.
PassingCallDelegatesUnchanged ==
  (Finished /\ \A j \in 1..Len(call.results) : call.results[j] = "true") =>
    /\ call.origCalls = 1
    /\ call.origThis = call.inst
    /\ call.origArgs = call.args
    /\ call.outcome = call.origOutcome
    /\ call.outcome.kind = "value" =>
         call.outcome.val = OrigResult(call.inst, call.method, call.args)
    /\ call.outcome.kind = "error" => call.outcome.err = "OriginalError"

\* a call with two arguments went through a chain of passing policies
PassedCallWithArgs ==
  /\ Finished
  /\ Len(call.results) >= 1
  /\ \A j \in 1..Len(call.results) : call.results[j] = "true"
  /\ Len(call.args) = 2
  /\ call.origCalls = 1

\* C4: when evaluate of a policy throws or rejects with E, the call fails
\* with E itself, no later policy is evaluated and the original is not invoked.
EvaluateFailurePropagates ==
  \A j \in 1..Len(call.results) :
    call.results[j] = "throw" =>
      /\ j = Len(call.evaluated)
      /\ call.status = "failed"
      /\ call.outcome.err = "EvaluateError"
      /\ call.outcome.by = call.evaluated[j]
      /\ call.origCalls = 0

\* evaluate of a policy failed while a later policy of the chain was to come
EvaluateFailedBeforeChainEnd ==
  \E j \in 1..Len(call.results) :
    call.results[j] = "throw" /\ j < Len(CallChain) /\ call.outcome.err = "EvaluateError"

\* C5: evaluate of policy k+1 starts only after the result of policy k has
\* settled, and the original starts only after the last policy has settled:
\* at most one evaluation of the invocation is in progress.
OneEvaluationAtATime ==
  /\ Cardinality(InFlight(call)) <= 1
  /\ \A j \in InFlight(call) : j = Len(call.results)
  /\ call.origCalls > 0 => InFlight(call) = {}

\* the second policy of a chain is being evaluated, the first has settled
SecondEvaluationInProgress ==
  /\ call.status = "running"
  /\ Len(call.results) = 2
  /\ call.results[1] = "true"
  /\ InFlight(call) = {2}

(***************************************************************************)
(* Properties of the chains and wrappers the gating passes build.          *)
(***************************************************************************)
\* policy p of the registered list gates method m of instance i by target and method
Gates(p, i, m) ==
  /\ TargetMatches(PolicyDef(p).target, Scope(i))
  /\ IsCallable(i, m)
  /\ \/ PolicyDef(p).methodKind = "none"
     \/ \E n \in 1..Len(PolicyDef(p).method) : PolicyDef(p).method[n] = m

\* C6 as stated: a policy registered after the instance was gated, matching
\* its target and method, is evaluated on the next call of that method
\* without a further gating pass of the instance.
LateRegisteredPolicyIsEvaluated ==
  (Finished /\ call.origCalls = 1) =>
    \A k \in (gatedLen[call.inst] + 1)..call.regLen :
      Gates(policies[k], call.inst, call.method) => Includes(call.evaluated, policies[k])

\* C6 amended: a call evaluates only policies that stood in the registered
\* list at the last gating pass of its instance; a policy registered later
\* is not evaluated on that instance until the instance is gated again.
OnlyPoliciesOfLastGatingPassEvaluated ==
  /\ \A j \in 1..Len(call.evaluated) :
       \E k \in 1..gatedLen[call.inst] : policies[k] = call.evaluated[j]
  /\ \A i \in Inst, m \in Methods : \A j \in 1..Len(policyMap[i][m]) :
       \E k \in 1..gatedLen[i] : policies[k] = policyMap[i][m][j]

\* a call reached the original although a matching policy had been
\* registered between the last gating pass of the instance and the call
CallPassedBesideLatePolicy ==
  /\ Finished
  /\ call.origCalls = 1
  /\ \E k \in (gatedLen[call.inst] + 1)..call.regLen :
       /\ Gates(policies[k], call.inst, call.method)
       /\ ~Includes(call.evaluated, policies[k])

GateState(i) == <<policyMap[i], wrapped[i], fn[i]>>

\* C7: chains, wrapped set and methods are per instance: a step changes them
\* for an instance only when it is a gating pass of that very instance, so
\* gating one account leaves every other account as it was.
PerInstanceIsolation ==
  [][\A b \in Inst : GateState(b)' # GateState(b) => getAccount(b)]_vars

\* account accE1 was gated before the policies of accE0's chain were
\* registered, and a call on accE1 went straight to the original
UngatedSiblingStillAccepts ==
  /\ policyMap["accE0"]["send"] # <<>>
  /\ "send" \in wrapped["accE0"]
  /\ held["accE1"]
  /\ policyMap["accE1"]["send"] = <<>>
  /\ fn["accE1"]["send"] = 0
  /\ call.inst = "accE1" /\ call.method = "send"
  /\ call.status = "returned" /\ call.evaluated = <<>>

\* C8 as stated: gating an instance again while the registered list is
\* unchanged leaves every chain as it was, so a call that reaches the
\* original has invoked evaluate of each policy of the chain exactly once.
RegatingKeepsChainsAndCounts ==
  /\ [][\A i \in Inst : (getAccount(i) /\ gatedLen[i] = Len(policies))
                          => policyMap'[i] = policyMap[i]]_vars
  /\ []((Finished /\ call.origCalls = 1 /\ regated[call.inst])
          => call.evaluated = CallChain)

\* C9 as stated: every gated method carries exactly one checkpoint layer.
ExactlyOneCheckpointLayer ==
  \A i \in Inst, m \in Methods :
    (m \in wrapped[i] \/ policyMap[i][m] # <<>>) => fn[i][m] = 1

\* position of the first occurrence of p in the registered list
FirstIndex(seq, p) == CHOOSE k \in 1..Len(seq) : seq[k] = p /\ \A j \in 1..(k - 1) : seq[j] # p

\* C10: every chain lists its policies in the relative order of the
\* registered list, and an invocation evaluates them in that order.
ChainsFollowRegistrationOrder ==
  /\ \A i \in Inst, m \in Methods :
       /\ \A a \in 1..Len(policyMap[i][m]) : Includes(policies, policyMap[i][m][a])
       /\ \A a, b \in 1..Len(policyMap[i][m]) :
            a < b => FirstIndex(policies, policyMap[i][m][a])
                       < FirstIndex(policies, policyMap[i][m][b])
  /\ \A a, b \in 1..Len(call.evaluated) :
       a < b => FirstIndex(policies, call.evaluated[a])
                  < FirstIndex(policies, call.evaluated[b])

\* an invocation that began when one policy was registered has evaluated a
\* chain of two policies, the second of which entered in a later gating pass
ChainGrownAcrossPasses ==
  /\ call.status # "idle"
  /\ call.regLen = 1
  /\ Len(policies) = 2
  /\ policies[1] # policies[2]
  /\ call.evaluated = <<policies[1], policies[2]>>
  /\ CallChain = call.evaluated
(***************************************************************************)
(* Registration: registerPolicies with any argument, registerWallet and    *)
(* dispose, on a manager that starts without a wallet.                     *)
(***************************************************************************)
\* the arguments handed to registerPolicies: arrays, a call without
\* argument, null and a single policy object that is not in an array
RegArgs ==
  {[kind |-> "array", items |-> b] :
     b \in {<<>>, <<"P1">>, <<"P2">>, <<"P1", "P2">>, <<"P2", "P1">>, <<"BAD">>, <<"NOFN">>,
            <<"P1", "BAD">>, <<"P2", "NOFN">>, <<"BAD", "P1">>, <<"P1", "NOFN", "P2">>}}
  \cup {[kind |-> k, items |-> <<>>] : k \in {"omitted", "null", "object"}}

\* Array.isArray(policies) after the default "policies = []" has applied
IsArray(arg) == arg.kind \in {"array", "omitted"}

\* what the call returns or throws
registerPoliciesOutcome(arg) ==
  IF ~IsArray(arg) THEN "TypeError"
  ELSE IF PushedPrefix(arg.items) # arg.items THEN "TypeError"
  ELSE "this"

registerPoliciesWith(arg) ==
  IF IsArray(arg) THEN registerPolicies(arg.items)
  ELSE /\ call' = Forget(call)
       /\ UNCHANGED <<policies, policyMap, wrapped, fn, held, gatedLen, regated, wallets,
                      protocols, acctProtocols, mw>>

\* this._wallets.set(blockchain, new WalletManager(seed, config)); return this
registerWallet(b) ==
  /\ wallets' = wallets \cup {b}
  /\ call' = Forget(call)
  /\ UNCHANGED <<policies, policyMap, wrapped, fn, held, gatedLen, regated, protocols,
                 acctProtocols, mw>>

\* the wallet.dispose() calls of one dispose(): one for every entry of this._wallets
DisposeCalls == [b \in {"eth", "ton"} |-> IF b \in wallets THEN 1 ELSE 0]

\* variant: dispose also empties the registered policy list
disposeClearsPolicies ==
  /\ wallets' = {}
  /\ mw' = [mw EXCEPT !.disposed = DisposeCalls]
  /\ policies' = <<>>
  /\ call' = Forget(call)
  /\ UNCHANGED <<policyMap, wrapped, fn, held, gatedLen, regated, protocols,
                 acctProtocols>>

\* variant: the wallets are disposed and stay registered
disposeWithoutClear ==
  /\ wallets' = wallets
  /\ mw' = [mw EXCEPT !.disposed = DisposeCalls]
  /\ call' = Forget(call)
  /\ UNCHANGED <<policies, policyMap, wrapped, fn, held, gatedLen, regated, protocols,
                 acctProtocols>>

\* wallet.dispose() for every wallet, then this._wallets.clear()
dispose ==
  /\ wallets' = {}
  /\ mw' = [mw EXCEPT !.disposed = DisposeCalls]
  /\ call' = Forget(call)
  /\ UNCHANGED <<policies, policyMap, wrapped, fn, held, gatedLen, regated, protocols,
                 acctProtocols>>

\* what getAccount resolves or rejects with once the wallet is found
getAccountOutcome(i) ==
  LET g0 == [policyMap |-> policyMap, wrapped |-> wrapped,
             fn |-> _registerProtocols(fn, i), threw |-> FALSE]
  IN IF _withPolicyGate(g0, policies, i, AccountScope(i)).threw THEN "TypeError"
     ELSE "account"

\* a registerPolicies call together with what its caller observes
registerPoliciesCall(arg) ==
  registerPoliciesWith(arg) /\ ret' = registerPoliciesOutcome(arg)

RegInst == {"accE0"}

InitReg ==
  /\ policies = <<>>
  /\ policyMap = [i \in RegInst |-> [m \in Methods |-> <<>>]]
  /\ wrapped = [i \in RegInst |-> {}]
  /\ fn = [i \in RegInst |-> [m \in Methods |-> 0]]
  /\ held = [i \in RegInst |-> FALSE]
  /\ gatedLen = [i \in RegInst |-> -1]
  /\ regated = [i \in RegInst |-> FALSE]
  /\ call = IdleCall
  /\ wallets = {}
  /\ protocols = {}
  /\ acctProtocols = [i \in RegInst |-> {}]
  /\ ret = "none"
  /\ mw = IdleMw

NextReg ==
  \/ \E arg \in RegArgs : registerPoliciesCall(arg)
  \/ \E b \in {"eth"} : registerWallet(b) /\ ret' = "this"
  \/ dispose /\ ret' = Undefined
  \/ \E i \in RegInst : getAccount(i) /\ ret' = getAccountOutcome(i)
  \/ \E i \in RegInst, m \in Methods, args \in ArgLists : invoke(i, m, args) /\ UNCHANGED ret
  \/ \E j \in 1..Len(call.results), r \in EvalResults : settle(j, r) /\ UNCHANGED ret

SpecReg == InitReg /\ [][NextReg]_vars

\* the entries of an argument, none when it is not an array
Items(arg) == IF arg.kind = "array" THEN arg.items ELSE <<>>

\* the entry has a missing or empty name, or an evaluate that is no function
InvalidEntry(p) == PolicyDef(p).name = "" \/ ~PolicyDef(p).evaluate

HasInvalidEntry(arg) == \E k \in 1..Len(Items(arg)) : InvalidEntry(Items(arg)[k])

\* C11 as stated: a registerPolicies call whose batch holds an invalid entry
\* leaves the registered list exactly as it was before the call.
NoPartialRegistration ==
  [][\A arg \in RegArgs :
       (registerPoliciesCall(arg) /\ HasInvalidEntry(arg)) => policies' = policies]_vars

\* C12: registerPolicies throws a TypeError exactly when its argument is not
\* an array or an entry has a missing or empty name or an evaluate that is
\* not a function; with valid entries only, an empty array or no argument,
\* it throws nothing.
ThrowsExactlyOnInvalidArgument ==
  [][\A arg \in RegArgs : registerPoliciesCall(arg) =>
       /\ ret' \in {"TypeError", "this"}
       /\ ret' = "TypeError" <=>
            (arg.kind \notin {"array", "omitted"} \/ HasInvalidEntry(arg))]_vars

\* a call was rejected, and one that appended nothing
RegistrationRejected == ret = "TypeError" /\ policies = <<>>

IsPrefix(s, t) == Len(s) <= Len(t) /\ SubSeq(t, 1, Len(s)) = s

\* C13: a registerPolicies call whose entries are all valid appends them in
\* batch order at the end of the registered list and returns the manager;
\* no step ever removes or reorders registered entries.
RegistryIsAppendOnly ==
  [][/\ IsPrefix(policies, policies')
     /\ \A arg \in RegArgs :
          (registerPoliciesCall(arg) /\ IsArray(arg) /\ ~HasInvalidEntry(arg)) =>
            (policies' = policies \o Items(arg) /\ ret' = "this")]_vars

\* two policies registered in one batch are still listed, in batch order,
\* after an account was derived and the manager was disposed
BatchKeptAcrossDispose ==
  /\ policies = <<"P2", "P1">>
  /\ held["accE0"]
  /\ wallets = {}
  /\ ret = Undefined

(***************************************************************************)
(* Claims about what a handed-out instance is gated against.               *)
(***************************************************************************)
\* C14 as stated: an account that getAccount has resolved with is gated
\* against every policy registered so far: each of its methods that a
\* registered matching policy names has the policy in its chain and runs
\* behind a checkpoint, so that no call can reach the method without the
\* policy being evaluated.
HandedOutInstanceIsGated ==
  \A i \in Inst :
    (held[i] /\ gatedLen[i] = Len(policies)) =>
      \A k \in 1..Len(policies), m \in Methods :
        Gates(policies[k], i, m) =>
          (Includes(policyMap[i][m], policies[k]) /\ fn[i][m] >= 1)

(***************************************************************************)
(* Wallet scoping: the accounts of index 0 of two blockchains, a policy     *)
(* with a wallet target and one without target.                            *)
(***************************************************************************)
ScopeAccounts == {"accE0", "accT0"}

ScopeBatches == {<<"P1">>, <<"P2">>, <<"P2", "P1">>}

InitScope ==
  /\ policies = <<>>
  /\ policyMap = [i \in ScopeAccounts |-> [m \in Methods |-> <<>>]]
  /\ wrapped = [i \in ScopeAccounts |-> {}]
  /\ fn = [i \in ScopeAccounts |-> [m \in Methods |-> 0]]
  /\ held = [i \in ScopeAccounts |-> FALSE]
  /\ gatedLen = [i \in ScopeAccounts |-> -1]
  /\ regated = [i \in ScopeAccounts |-> FALSE]
  /\ call = IdleCall
  /\ wallets = {"eth", "ton"}
  /\ protocols = {}
  /\ acctProtocols = [i \in ScopeAccounts |-> {}]
  /\ ret = "none"
  /\ mw = IdleMw

NextScope ==
  \/ \E batch \in ScopeBatches : registerPolicies(batch) /\ ret' = "this"
  \/ \E i \in ScopeAccounts : getAccount(i) /\ ret' = getAccountOutcome(i)
  \/ \E i \in ScopeAccounts, m \in Methods, args \in ArgLists :
       invoke(i, m, args) /\ UNCHANGED ret
  \/ \E j \in 1..Len(call.results), r \in EvalResults : settle(j, r) /\ UNCHANGED ret

SpecScope == InitScope /\ [][NextScope]_vars

\* the method names of a policy
Names(p, m) == \E n \in 1..Len(PolicyDef(p).method) : PolicyDef(p).method[n] = m

\* the latest gating pass of instance i went over entry k of the registered
\* list, and the instance was handed out
Covered(i, k) == held[i] /\ gatedLen[i] >= k

\* C15: a policy with target { wallet: W } gates the method it names on the
\* accounts derived for W; on an account of another blockchain it is in no
\* chain, no call evaluates it and no call is rejected by it.
WalletTargetGatesOnlyItsBlockchain ==
  \A k \in 1..Len(policies) :
    LET p == policies[k]
        W == PolicyDef(p).target.wallet
    IN W # "" =>
         \A i \in ScopeAccounts :
           IF InstWallet(i) = W
           THEN \A m \in Methods :
                  (Covered(i, k) /\ Names(p, m) /\ IsCallable(i, m)) =>
                    (Includes(policyMap[i][m], p) /\ fn[i][m] >= 1)
           ELSE /\ \A m \in Methods : ~Includes(policyMap[i][m], p)
                /\ call.inst = i =>
                     /\ ~Includes(call.evaluated, p)
                     /\ ~(call.outcome.err = "PolicyViolationError"
                          /\ call.outcome.policy = PolicyDef(p).name)

\* with the policy of wallet "eth" registered and in the chain of send on
\* the eth account, a call of send on the ton account, gated after the
\* registration, ran the original
TonCallBesideEthPolicy ==
  /\ Len(policies) >= 1
  /\ policies[1] = "P2"
  /\ Includes(policyMap["accE0"]["send"], "P2")
  /\ Covered("accT0", 1)
  /\ call.inst = "accT0"
  /\ call.method = "send"
  /\ call.status = "returned"
  /\ call.origCalls = 1

Count(list, p) == Cardinality({n \in 1..Len(list) : list[n] = p})

\* C20: a policy whose method is a list is, after a gating pass, exactly
\* once in the chain of every listed method the instance has, however often
\* the list repeats the name, and in the chain of no other method.
ListPolicyGatesListedMethodsOnce ==
  \A k \in 1..Len(policies), i \in ScopeAccounts, m \in Methods :
    LET p == policies[k] IN
    (PolicyDef(p).methodKind = "list" /\ TargetMatches(PolicyDef(p).target, Scope(i))) =>
      IF Names(p, m) /\ IsCallable(i, m)
      THEN /\ Count(policyMap[i][m], p) <= 1
           /\ Covered(i, k) => (Count(policyMap[i][m], p) = 1 /\ fn[i][m] >= 1)
      ELSE Count(policyMap[i][m], p) = 0

\* the list <<send, sign, send>> put the policy once in the chain of send,
\* behind a policy registered before it, and in no chain of the absent sign
\* or the unlisted accessor
ListPolicyOnceInSendChain ==
  /\ policies = <<"P1", "P2">>
  /\ held["accE0"]
  /\ policyMap["accE0"]["send"] = <<"P1", "P2">>
  /\ policyMap["accE0"]["sign"] = <<>>
  /\ policyMap["accE0"]["getSwapProtocol"] = <<>>

\* C21: a method name of a matching policy that the instance does not have
\* as a callable is skipped: the gating pass ends without error, the name
\* gets no chain entry and no wrapper, and the other names of the policy
\* that the instance has are gated.
AbsentMethodIsSkipped ==
  /\ ret # "TypeError"
  /\ \A i \in ScopeAccounts, m \in Methods :
       ~IsCallable(i, m) =>
         (policyMap[i][m] = <<>> /\ m \notin wrapped[i] /\ fn[i][m] = 0)
  /\ \A i \in ScopeAccounts, k \in 1..Len(policies) :
       LET p == policies[k] IN
       (/\ Covered(i, k)
        /\ TargetMatches(PolicyDef(p).target, Scope(i))
        /\ \E m \in Methods : Names(p, m) /\ ~IsCallable(i, m)) =>
         \A m2 \in Methods :
           (Names(p, m2) /\ IsCallable(i, m2)) =>
             (Includes(policyMap[i][m2], p) /\ m2 \in wrapped[i] /\ fn[i][m2] >= 1)

\* getAccount resolved for an account gated against the policy that names
\* send and the absent sign: send is wrapped, sign is not
SignSkippedSendGated ==
  /\ policies = <<"P2">>
  /\ ret = "account"
  /\ Covered("accE0", 1)
  /\ wrapped["accE0"] = {"send"}
  /\ policyMap["accE0"]["sign"] = <<>>

(***************************************************************************)
(* Protocol scoping: swap protocols registered manager-wide under two      *)
(* labels, a policy with a protocol target and one without target.  Both   *)
(* accounts were derived before any policy was registered.                 *)
(***************************************************************************)
\* account.getSwapProtocol(label), called on the accessor as installed by
\* _registerProtocols.  A manager-wide registration yields a new instance
\* on every lookup; the first one per account and label is followed.
getSwapProtocol(a, label) ==
  LET s == ProtoSlot(a, label)
      managerWide == <<InstWallet(a), label>> \in protocols
      fresh == [policyMap |-> [policyMap EXCEPT ![s] = [m \in Methods |-> <<>>]],
                wrapped |-> [wrapped EXCEPT ![s] = {}],
                fn |-> [fn EXCEPT ![s] = [m \in Methods |-> 0]], threw |-> FALSE]
      kept == [policyMap |-> policyMap, wrapped |-> wrapped, fn |-> fn, threw |-> FALSE]
      g == _withPolicyGate(IF managerWide THEN fresh ELSE kept, policies, s,
                           ProtocolScope(s))
  IN /\ held[a]
     /\ fn[a]["getSwapProtocol"] = 0
     /\ IF managerWide \/ label \in acctProtocols[a]
        THEN /\ managerWide => ~held[s]
             /\ policyMap' = g.policyMap
             /\ wrapped' = g.wrapped
             /\ fn' = g.fn
             /\ held' = IF g.threw THEN held ELSE [held EXCEPT ![s] = TRUE]
             /\ gatedLen' = [gatedLen EXCEPT ![s] = Len(policies)]
             /\ regated' = [regated EXCEPT
                              ![s] = ~managerWide /\ gatedLen[s] = Len(policies)]
        ELSE UNCHANGED <<policyMap, wrapped, fn, held, gatedLen, regated>>
     /\ call' = Forget(call)
     /\ UNCHANGED <<policies, wallets, protocols, acctProtocols, mw>>

\* what the accessor returns or throws
getSwapProtocolOutcome(a, label) ==
  LET s == ProtoSlot(a, label)
      g0 == [policyMap |-> policyMap, wrapped |-> wrapped, fn |-> fn, threw |-> FALSE]
  IN IF <<InstWallet(a), label>> \notin protocols /\ label \notin acctProtocols[a]
     THEN "NoProtocolError"
     ELSE IF _withPolicyGate(g0, policies, s, ProtocolScope(s)).threw THEN "TypeError"
     ELSE "protocol"

ProtoBatches == {<<"P5">>, <<"P6">>}

ProtoInstances == ScopeAccounts \cup ProtocolInst

InitProto ==
  /\ policies = <<>>
  /\ policyMap = [i \in ProtoInstances |-> [m \in Methods |-> <<>>]]
  /\ wrapped = [i \in ProtoInstances |-> {}]
  /\ fn = [i \in ProtoInstances |-> [m \in Methods |-> 0]]
  /\ held = [i \in ProtoInstances |-> i \in ScopeAccounts]
  /\ gatedLen = [i \in ProtoInstances |-> IF i \in ScopeAccounts THEN 0 ELSE -1]
  /\ regated = [i \in ProtoInstances |-> FALSE]
  /\ call = IdleCall
  /\ wallets = {"eth", "ton"}
  /\ protocols = {<<"eth", "main">>, <<"eth", "alt">>, <<"ton", "main">>}
  /\ acctProtocols = [i \in ScopeAccounts |-> {}]
  /\ ret = "none"
  /\ mw = IdleMw

NextProto ==
  \/ \E batch \in ProtoBatches : registerPolicies(batch) /\ ret' = "this"
  \/ \E a \in ScopeAccounts, label \in Labels :
       getSwapProtocol(a, label) /\ ret' = getSwapProtocolOutcome(a, label)
  \/ \E i \in ProtocolInst, m \in Methods, args \in ArgLists :
       invoke(i, m, args) /\ UNCHANGED ret
  \/ \E j \in 1..Len(call.results), r \in EvalResults : settle(j, r) /\ UNCHANGED ret

SpecProto == InitProto /\ [][NextProto]_vars

\* C16: a policy with target { protocol: { blockchain: B, label: L } } gates
\* the method it names on the protocol instance obtained under L from an
\* account of B; on an instance obtained under another label or from an
\* account of another blockchain it is in no chain, no call evaluates it and
\* no call is rejected by it.
ProtocolTargetGatesOnlyItsLabelAndBlockchain ==
  \A k \in 1..Len(policies) :
    LET p == policies[k]
        t == PolicyDef(p).target
    IN (t.hasProtocol /\ t.blockchain # "" /\ t.label # "") =>
         \A s \in ProtocolInst :
           IF InstWallet(ProtoAccount(s)) = t.blockchain /\ ProtoLabel(s) = t.label
           THEN \A m \in Methods :
                  (Covered(s, k) /\ Names(p, m) /\ IsCallable(s, m)) =>
                    (Includes(policyMap[s][m], p) /\ fn[s][m] >= 1)
           ELSE /\ \A m \in Methods : ~Includes(policyMap[s][m], p)
                /\ call.inst = s =>
                     /\ ~Includes(call.evaluated, p)
                     /\ ~(call.outcome.err = "PolicyViolationError"
                          /\ call.outcome.policy = PolicyDef(p).name)

\* with the policy of eth/main registered and in the chain of swap on the
\* eth/main instance, swap ran on the eth/alt and on no gate at all on the
\* ton/main instance, both obtained after the registration
OtherLabelAndBlockchainPass ==
  /\ Len(policies) >= 1
  /\ policies[1] = "P5"
  /\ Includes(policyMap["swE0main"]["swap"], "P5")
  /\ Covered("swE0alt", 1)
  /\ Covered("swT0main", 1)
  /\ fn["swT0main"]["swap"] = 0
  /\ call.inst = "swE0alt"
  /\ call.method = "swap"
  /\ call.status = "returned"
  /\ call.origCalls = 1

(***************************************************************************)
(* Target matching: one registered policy, drawn from the policies T01 ..  *)
(* T18, and every account and protocol instance gated against it.          *)
(***************************************************************************)
InitMatch ==
  /\ policies \in {<<p>> : p \in DOMAIN MatchTargets}
  /\ policyMap = [i \in ProtoInstances |-> [m \in Methods |-> <<>>]]
  /\ wrapped = [i \in ProtoInstances |-> {}]
  /\ fn = [i \in ProtoInstances |-> [m \in Methods |-> 0]]
  /\ held = [i \in ProtoInstances |-> FALSE]
  /\ gatedLen = [i \in ProtoInstances |-> -1]
  /\ regated = [i \in ProtoInstances |-> FALSE]
  /\ call = IdleCall
  /\ wallets = {"eth", "ton"}
  /\ protocols = {"eth", "ton"} \X Labels
  /\ acctProtocols = [i \in ScopeAccounts |-> {}]
  /\ ret = "none"
  /\ mw = IdleMw

NextMatch ==
  \/ \E i \in ScopeAccounts : getAccount(i) /\ ret' = getAccountOutcome(i)
  \/ \E a \in ScopeAccounts, label \in Labels :
       getSwapProtocol(a, label) /\ ret' = getSwapProtocolOutcome(a, label)

SpecMatch == InitMatch /\ [][NextMatch]_vars

ScanInst == {"accE2"}

ScanBatches == {<<"P4">>, <<"P1">>}

InitScan ==
  /\ policies = <<>>
  /\ policyMap = [i \in ScanInst |-> [m \in Methods |-> <<>>]]
  /\ wrapped = [i \in ScanInst |-> {}]
  /\ fn = [i \in ScanInst |-> [m \in Methods |-> 0]]
  /\ held = [i \in ScanInst |-> FALSE]
  /\ gatedLen = [i \in ScanInst |-> -1]
  /\ regated = [i \in ScanInst |-> FALSE]
  /\ call = IdleCall
  /\ wallets = {"eth"}
  /\ protocols = {}
  /\ acctProtocols = [i \in ScanInst |-> {}]
  /\ ret = "none"
  /\ mw = IdleMw

\* a getAccount call together with what its caller observes
getAccountCall(i) == getAccount(i) /\ ret' = getAccountOutcome(i)

NextScan ==
  \/ \E batch \in ScanBatches : registerPolicies(batch) /\ ret' = "this"
  \/ \E i \in ScanInst : getAccountCall(i)
  \/ \E i \in ScanInst, m \in Methods, args \in ArgLists :
       invoke(i, m, args) /\ UNCHANGED ret
  \/ \E j \in 1..Len(call.results), r \in EvalResults : settle(j, r) /\ UNCHANGED ret

SpecScan == InitScan /\ [][NextScan]_vars

\* a policy without method is registered
MethodlessRegistered ==
  \E k \in 1..Len(policies) : PolicyDef(policies[k]).methodKind = "none"

\* C18 as stated: with a policy without method registered, getAccount
\* resolves with the account, and every finished call of a callable member
\* of an account gated against the policy has evaluated the policy exactly
\* once, with the member's name as method.
MethodlessPolicyGatesEveryCalledMember ==
  /\ [][\A i \in ScanInst :
          (getAccountCall(i) /\ MethodlessRegistered) => (ret' = "account" /\ held'[i])]_vars
  /\ [](\A k \in 1..Len(policies) :
          (/\ PolicyDef(policies[k]).methodKind = "none"
           /\ call.status \in {"returned", "failed"}
           /\ Covered(call.inst, k)
           /\ call.regLen >= k) =>
            Count(call.evaluated, policies[k]) = 1)

\* C19 as stated: with a policy without method that always rejects
\* registered, getAccount hands out the account, and a call of its read-only
\* member runs the original directly: no policy is evaluated and the result
\* is the original's.
ReadOnlyMemberIsNotGated ==
  /\ [][\A i \in ScanInst : (getAccountCall(i) /\ MethodlessRegistered) => held'[i]]_vars
  /\ []((/\ MethodlessRegistered
          /\ call.status \in {"returned", "failed"}
          /\ call.method = "getAddress") =>
           (/\ call.evaluated = <<>>
            /\ call.origCalls = 1
            /\ call.outcome = call.origOutcome))

(***************************************************************************)
(* Claims about a policy object that is registered more than once.         *)
(***************************************************************************)
\* C30: a policy object that stands more than once in the registered list
\* is at most once in every chain, once in the chains a gating pass over it
\* has filled, and evaluated at most once by an invocation.
PolicyRegisteredTwiceGatesOnce ==
  \A k \in 1..Len(policies) :
    LET p == policies[k] IN
    /\ \A i \in Inst, m \in Methods :
         /\ Count(policyMap[i][m], p) <= 1
         /\ (Covered(i, k) /\ Gates(p, i, m)) => Count(policyMap[i][m], p) = 1
    /\ Count(call.evaluated, p) <= 1

\* the list holds the same policy object twice; a call of send on an
\* account gated against both entries evaluated it once and ran the original
TwiceRegisteredEvaluatedOnce ==
  /\ policies = <<"P1", "P1">>
  /\ Covered("accE0", 2)
  /\ policyMap["accE0"]["send"] = <<"P1">>
  /\ call.inst = "accE0"
  /\ call.method = "send"
  /\ call.status = "returned"
  /\ call.evaluated = <<"P1">>

(***************************************************************************)
(* Evaluation: an eth account and the swap protocol obtained from it under *)
(* "main", with policies naming send, swap and both.                       *)
(***************************************************************************)
EvalInst == {"accE0", "swE0main"}

EvalBatches == {<<"T01">>, <<"P1">>, <<"P6">>}

InitEval ==
  /\ policies = <<>>
  /\ policyMap = [i \in EvalInst |-> [m \in Methods |-> <<>>]]
  /\ wrapped = [i \in EvalInst |-> {}]
  /\ fn = [i \in EvalInst |-> [m \in Methods |-> 0]]
  /\ held = [i \in EvalInst |-> FALSE]
  /\ gatedLen = [i \in EvalInst |-> -1]
  /\ regated = [i \in EvalInst |-> FALSE]
  /\ call = IdleCall
  /\ wallets = {"eth"}
  /\ protocols = {<<"eth", "main">>}
  /\ acctProtocols = [i \in {"accE0"} |-> {}]
  /\ ret = "none"
  /\ mw = IdleMw

\* what the caller saw of its previous invocation of the same method
PreviousOutcome(i, m) ==
  IF call.inst = i /\ call.method = m /\ call.status = "failed" THEN call.outcome.err
  ELSE "none"

\* an invocation together with what its caller had seen before it
invokeAgain(i, m, args) == invoke(i, m, args) /\ ret' = PreviousOutcome(i, m)

NextEval ==
  \/ \E batch \in EvalBatches : registerPolicies(batch) /\ ret' = "this"
  \/ getAccountCall("accE0")
  \/ getSwapProtocol("accE0", "main") /\ ret' = getSwapProtocolOutcome("accE0", "main")
  \/ \E i \in EvalInst, m \in {"send", "swap"}, args \in ArgLists : invokeAgain(i, m, args)
  \/ \E j \in 1..Len(call.results), r \in EvalResults : settle(j, r) /\ UNCHANGED ret

SpecEval == InitEval /\ [][NextEval]_vars

RejectionIsNotRemembered ==
  [][/\ (call.status = "running" /\ call'.outcome.err = "PolicyViolationError") =>
          UNCHANGED <<policyMap, wrapped, fn>>
     /\ (call.outcome.err = "PolicyViolationError" /\ call' # call /\ call' # IdleCall) =>
          \E i \in EvalInst, m \in Methods, args \in ArgLists : invokeAgain(i, m, args)
     /\ \A i \in EvalInst, m \in Methods, args \in ArgLists :
          (invokeAgain(i, m, args) /\ fn[i][m] >= 1 /\ policyMap[i][m] # <<>>) =>
            /\ call'.evaluated = <<policyMap[i][m][1]>>
            /\ call'.results = <<"pending">>
            /\ call'.origCalls = 0]_vars

\* send was rejected by the second policy of its chain; the caller called
\* it again, both policies were evaluated again and the original ran
RetryEvaluatedWholeChain ==
  /\ ret = "PolicyViolationError"
  /\ call.inst = "accE0"
  /\ call.method = "send"
  /\ call.status = "returned"
  /\ Len(call.evaluated) = 2
  /\ call.origCalls = 1

(***************************************************************************)
(* A top-level blockchain in targets: the accounts of index 0 of two       *)
(* blockchains, a policy whose target is { blockchain: "eth" } and one     *)
(* without target.                                                         *)
(***************************************************************************)
ChainBatches == {<<"P7">>, <<"P1">>}

NextChain ==
  \/ \E batch \in ChainBatches : registerPolicies(batch) /\ ret' = "this"
  \/ \E i \in ScopeAccounts : getAccountCall(i)
  \/ \E i \in ScopeAccounts, m \in Methods, args \in ArgLists :
       invoke(i, m, args) /\ UNCHANGED ret
  \/ \E j \in 1..Len(call.results), r \in EvalResults : settle(j, r) /\ UNCHANGED ret

SpecChain == InitScope /\ [][NextChain]_vars

BlockchainTargeted(p) ==
  /\ PolicyDef(p).target.chain # ""
  /\ PolicyDef(p).target.wallet = ""
  /\ ~PolicyDef(p).target.hasProtocol

Middlewares == {"mwA", "mwB"}

\* new Error(`No wallet registered for blockchain: ${blockchain}.`)
NoWalletMessage(b) ==
  IF b = "eth" THEN "No wallet registered for blockchain: eth."
  ELSE "No wallet registered for blockchain: ton."

\* this._middlewares[blockchain] ??= []; this._middlewares[blockchain].push(middleware)
registerMiddleware(b, f) ==
  /\ Len(mw.reg[b]) < MaxMiddlewares
  /\ mw' = [mw EXCEPT !.reg[b] = Append(@, f)]
  /\ call' = Forget(call)
  /\ UNCHANGED <<policies, policyMap, wrapped, fn, held, gatedLen, regated, wallets,
                 protocols, acctProtocols>>

\* variant: the derivation starts without looking for the wallet
getAccountBeginUnchecked(i) ==
  /\ mw.status = "idle"
  /\ mw' = [mw EXCEPT !.status = "deriving", !.inst = i, !.k = 0, !.running = FALSE,
                      !.log = <<>>]
  /\ ret' = "pending"
  /\ call' = Forget(call)
  /\ UNCHANGED <<policies, policyMap, wrapped, fn, held, gatedLen, regated, wallets,
                 protocols, acctProtocols>>

\* getAccount up to "await wallet.getAccount(index)", with what the caller
\* observes: the rejection, or a promise that is still pending
getAccountBegin(i) ==
  /\ mw.status = "idle"
  /\ IF InstWallet(i) \notin wallets
     THEN /\ ret' = NoWalletMessage(InstWallet(i))
          /\ UNCHANGED mw
     ELSE /\ ret' = "pending"
          /\ mw' = [mw EXCEPT !.status = "deriving", !.inst = i, !.k = 0,
                              !.running = FALSE, !.log = <<>>]
  /\ call' = Forget(call)
  /\ UNCHANGED <<policies, policyMap, wrapped, fn, held, gatedLen, regated, wallets,
                 protocols, acctProtocols>>

\* "await wallet.getAccount(index)" settles; when it rejects, so does
\* getAccount
derivationEnd(r) ==
  /\ mw.status = "deriving"
  /\ IF r = "ok"
     THEN /\ mw' = [mw EXCEPT !.status = "middlewares"]
          /\ UNCHANGED ret
     ELSE /\ mw' = [mw EXCEPT !.status = "idle"]
          /\ ret' = "DerivationError"
  /\ UNCHANGED <<policies, policyMap, wrapped, fn, held, gatedLen, regated, call, wallets,
                 protocols, acctProtocols>>

\* variant: the next middleware is called while the one before it is running
middlewareStartNoAwait ==
  /\ mw.status = "middlewares"
  /\ mw.k < Len(mw.reg[InstWallet(mw.inst)])
  /\ mw' = [mw EXCEPT !.k = @ + 1, !.running = TRUE,
                      !.log = Append(@, <<"start", mw.reg[InstWallet(mw.inst)][mw.k + 1],
                                          mw.inst>>)]
  /\ UNCHANGED <<policies, policyMap, wrapped, fn, held, gatedLen, regated, call, wallets,
                 protocols, acctProtocols, ret>>

\* _runMiddlewares: the loop takes the next middleware and calls it with the account
middlewareStart ==
  /\ mw.status = "middlewares"
  /\ ~mw.running
  /\ mw.k < Len(mw.reg[InstWallet(mw.inst)])
  /\ mw' = [mw EXCEPT !.k = @ + 1, !.running = TRUE,
                      !.log = Append(@, <<"start", mw.reg[InstWallet(mw.inst)][mw.k + 1],
                                          mw.inst>>)]
  /\ UNCHANGED <<policies, policyMap, wrapped, fn, held, gatedLen, regated, call, wallets,
                 protocols, acctProtocols, ret>>

\* _runMiddlewares: the awaited middleware settles; when it rejects, so
\* does getAccount
middlewareEnd(r) ==
  /\ mw.status = "middlewares"
  /\ mw.running
  /\ IF r = "ok"
     THEN /\ mw' = [mw EXCEPT !.running = FALSE,
                              !.log = Append(@, <<"end", mw.reg[InstWallet(mw.inst)][mw.k],
                                                  mw.inst>>)]
          /\ UNCHANGED ret
     ELSE /\ mw' = [mw EXCEPT !.running = FALSE, !.status = "idle",
                              !.log = Append(@, <<"threw", mw.reg[InstWallet(mw.inst)][mw.k],
                                                  mw.inst>>)]
          /\ ret' = "MiddlewareError"
  /\ UNCHANGED <<policies, policyMap, wrapped, fn, held, gatedLen, regated, call, wallets,
                 protocols, acctProtocols>>

\* the loop of _runMiddlewares has ended: accessors, gate, return
getAccountEnd ==
  /\ mw.status = "middlewares"
  /\ ~mw.running
  /\ mw.k >= Len(mw.reg[InstWallet(mw.inst)])
  /\ getAccountTail(mw.inst)
  /\ ret' = getAccountOutcome(mw.inst)
  /\ mw' = [mw EXCEPT !.status = "idle"]

\* getFeeRates(blockchain)
getFeeRates(b) ==
  /\ ret' = IF b \notin wallets THEN NoWalletMessage(b) ELSE "feeRates"
  /\ call' = Forget(call)
  /\ UNCHANGED <<policies, policyMap, wrapped, fn, held, gatedLen, regated, wallets,
                 protocols, acctProtocols, mw>>

MwBatches == {<<"P1">>}

InitMw ==
  /\ policies = <<>>
  /\ policyMap = [i \in ScopeAccounts |-> [m \in Methods |-> <<>>]]
  /\ wrapped = [i \in ScopeAccounts |-> {}]
  /\ fn = [i \in ScopeAccounts |-> [m \in Methods |-> 0]]
  /\ held = [i \in ScopeAccounts |-> FALSE]
  /\ gatedLen = [i \in ScopeAccounts |-> -1]
  /\ regated = [i \in ScopeAccounts |-> FALSE]
  /\ call = IdleCall
  /\ wallets = {"eth"}
  /\ protocols = {}
  /\ acctProtocols = [i \in ScopeAccounts |-> {}]
  /\ ret = "none"
  /\ mw = IdleMw

NextMw ==
  \/ \E batch \in MwBatches : registerPolicies(batch) /\ ret' = "this"
  \/ \E b \in {"eth", "ton"}, f \in Middlewares : registerMiddleware(b, f) /\ ret' = "this"
  \/ \E i \in ScopeAccounts : getAccountBegin(i)
  \/ \E r \in {"ok", "throw"} : derivationEnd(r)
  \/ middlewareStart
  \/ \E r \in {"ok", "throw"} : middlewareEnd(r)
  \/ getAccountEnd
  \/ \E b \in {"eth", "ton"} : getFeeRates(b)

SpecMw == InitMw /\ [][NextMw]_vars

\* C27: a getAccount call runs the middlewares registered for its
\* blockchain, and no other, in registration order with the derived account
\* as argument, each started after the one before it has completed; when
\* the call resolves, each of them has run once.
MiddlewaresRunInOrderOnce ==
  LET reg == mw.reg[InstWallet(mw.inst)] IN
  /\ Len(mw.log) = 2 * mw.k - (IF mw.running THEN 1 ELSE 0)
  /\ mw.k <= Len(reg)
  /\ \A n \in 1..Len(mw.log) :
       /\ n % 2 = 1 => mw.log[n][1] = "start"
       /\ n % 2 = 0 => mw.log[n][1] \in {"end", "threw"}
       /\ mw.log[n][1] = "threw" => (n = Len(mw.log) /\ mw.status = "idle")
       /\ mw.log[n][2] = reg[(n + 1) \div 2]
       /\ mw.log[n][3] = mw.inst
  /\ ret = "account" =>
       (mw.k = Len(reg) /\ \A n \in 1..Len(mw.log) : mw.log[n][1] # "threw")

\* getAccount for "eth" resolved after the two eth middlewares ran, with a
\* middleware registered for "ton" as well
TwoEthMiddlewaresRan ==
  /\ ret = "account"
  /\ mw.inst = "accE0"
  /\ mw.reg["eth"] = <<"mwB", "mwA">>
  /\ mw.reg["ton"] # <<>>
  /\ Len(mw.log) = 4

\* C28: getAccount and getFeeRates for a blockchain without registered
\* wallet reject with "No wallet registered for blockchain: <name>.", call
\* no middleware and gate nothing.
NoWalletRejectsBeforeAnything ==
  [][/\ \A i \in ScopeAccounts :
          (getAccountBegin(i) /\ InstWallet(i) \notin wallets) =>
            /\ ret' = "No wallet registered for blockchain: ton."
            /\ UNCHANGED <<policyMap, wrapped, fn, held, gatedLen, mw>>
     /\ \A b \in {"eth", "ton"} :
          (getFeeRates(b) /\ b \notin wallets) =>
            /\ ret' = "No wallet registered for blockchain: ton."
            /\ UNCHANGED <<policyMap, wrapped, fn, held, gatedLen, mw>>]_vars

\* a call for "ton" was rejected while a policy and a ton middleware were
\* registered; the ton account is neither handed out nor gated
TonCallRejected ==
  /\ ret = "No wallet registered for blockchain: ton."
  /\ Len(policies) >= 1
  /\ mw.reg["ton"] # <<>>
  /\ mw.log = <<>>
  /\ ~held["accT0"]
  /\ gatedLen["accT0"] = -1

(***************************************************************************)
(* Protocol lookup: the four registries of the manager and of account      *)
(* accE0, which was derived before any policy was registered, and the      *)
(* four accessors installed on it.                                         *)
(***************************************************************************)
Types == {"swap", "bridge", "lending", "fiat"}

\* the classes handed to registerProtocol; Plain extends none of the four
\* protocol base classes
Classes == {"SwapA", "SwapB", "BridgeA", "LendingA", "FiatA", "Plain"}

\* Protocol.prototype instanceof SwapProtocol / BridgeProtocol / ...
ClassType(cls) ==
  CASE cls \in {"SwapA", "SwapB"} -> "swap"
    [] cls = "BridgeA" -> "bridge"
    [] cls = "LendingA" -> "lending"
    [] cls = "FiatA" -> "fiat"
    [] OTHER -> "none"

\* the instance followed for a type and a label
LookupSlot(type, label) ==
  CASE type = "swap" -> (IF label = "main" THEN "swE0main" ELSE "swE0alt")
    [] type = "bridge" -> (IF label = "main" THEN "brE0main" ELSE "brE0alt")
    [] type = "lending" -> (IF label = "main" THEN "leE0main" ELSE "leE0alt")
    [] OTHER -> (IF label = "main" THEN "fiE0main" ELSE "fiE0alt")

LookupInst == {"accE0"} \cup {LookupSlot(type, label) : type \in Types, label \in Labels}

\* new Error(`No ${type} protocol registered for label: ${label}.`)
NoProtocolMessage(type, label) ==
  CASE type = "swap" -> (IF label = "main" THEN "No swap protocol registered for label: main."
                         ELSE "No swap protocol registered for label: alt.")
    [] type = "bridge" -> (IF label = "main" THEN "No bridge protocol registered for label: main."
                           ELSE "No bridge protocol registered for label: alt.")
    [] type = "lending" -> (IF label = "main" THEN "No lending protocol registered for label: main."
                            ELSE "No lending protocol registered for label: alt.")
    [] OTHER -> (IF label = "main" THEN "No fiat protocol registered for label: main."
                 ELSE "No fiat protocol registered for label: alt.")

\* this._protocols[type][blockchain]?.[label]
ManagerEntries(type, b, label) ==
  {e \in protocols : e[1] = type /\ e[2] = b /\ e[3] = label}

\* protocols[type][label] of the closures installed on the account
AccountEntries(a, type, label) ==
  {e \in acctProtocols[a] : e[1] = type /\ e[2] = label}

\* registerProtocol(blockchain, label, Protocol, config)
registerProtocol(b, label, cls) ==
  LET type == ClassType(cls) IN
  /\ Cardinality(protocols) + Cardinality(acctProtocols["accE0"]) < MaxProtocols
  /\ protocols' = IF type = "none" THEN protocols
                  ELSE (protocols \ ManagerEntries(type, b, label))
                         \cup {<<type, b, label, cls>>}
  /\ call' = Forget(call)
  /\ UNCHANGED <<policies, policyMap, wrapped, fn, held, gatedLen, regated, wallets,
                 acctProtocols, mw>>

\* account.registerProtocol(label, Protocol, config): a new instance of the
\* class, not gated yet, takes the place under the label
accountRegisterProtocol(a, label, cls) ==
  LET type == ClassType(cls)
      s == LookupSlot(type, label)
      shadowed == ManagerEntries(type, InstWallet(a), label) # {}
  IN
  /\ held[a]
  /\ Cardinality(protocols) + Cardinality(acctProtocols[a]) < MaxProtocols
  /\ IF type = "none"
     THEN UNCHANGED <<acctProtocols, policyMap, wrapped, fn, held, gatedLen, regated>>
     ELSE /\ acctProtocols' = [acctProtocols EXCEPT
                                 ![a] = (@ \ AccountEntries(a, type, label))
                                          \cup {<<type, label, cls>>}]
          /\ IF shadowed
             THEN UNCHANGED <<policyMap, wrapped, fn, held, gatedLen, regated>>
             ELSE /\ policyMap' = [policyMap EXCEPT ![s] = [m \in Methods |-> <<>>]]
                  /\ wrapped' = [wrapped EXCEPT ![s] = {}]
                  /\ fn' = [fn EXCEPT ![s] = [m \in Methods |-> 0]]
                  /\ held' = [held EXCEPT ![s] = FALSE]
                  /\ gatedLen' = [gatedLen EXCEPT ![s] = -1]
                  /\ regated' = [regated EXCEPT ![s] = FALSE]
  /\ call' = Forget(call)
  /\ UNCHANGED <<policies, wallets, protocols, mw>>

\* the scope the four accessors pass to _withPolicyGate
LookupScope(a, label) ==
  [NoTarget EXCEPT !.hasProtocol = TRUE, !.blockchain = InstWallet(a), !.label = label]

\* account.getSwapProtocol / getBridgeProtocol / getLendingProtocol /
\* getFiatProtocol (label), called on the accessor as installed by
\* _registerProtocols: a new gated instance of the manager-wide class, else
\* the instance registered on the account, gated again, else the throw
getProtocol(type, a, label) ==
  LET s == LookupSlot(type, label)
      managerWide == ManagerEntries(type, InstWallet(a), label) # {}
      onAccount == AccountEntries(a, type, label) # {}
      fresh == [policyMap |-> [policyMap EXCEPT ![s] = [m \in Methods |-> <<>>]],
                wrapped |-> [wrapped EXCEPT ![s] = {}],
                fn |-> [fn EXCEPT ![s] = [m \in Methods |-> 0]], threw |-> FALSE]
      kept == [policyMap |-> policyMap, wrapped |-> wrapped, fn |-> fn, threw |-> FALSE]
      g == _withPolicyGate(IF managerWide THEN fresh ELSE kept, policies, s,
                           LookupScope(a, label))
  IN /\ held[a]
     /\ fn[a]["getSwapProtocol"] = 0
     /\ IF managerWide \/ onAccount
        THEN /\ policyMap' = g.policyMap
             /\ wrapped' = g.wrapped
             /\ fn' = g.fn
             /\ held' = [held EXCEPT ![s] = ~g.threw /\ (managerWide \/ @)]
             /\ gatedLen' = [gatedLen EXCEPT ![s] = Len(policies)]
             /\ regated' = [regated EXCEPT
                              ![s] = ~managerWide /\ gatedLen[s] = Len(policies)]
        ELSE UNCHANGED <<policyMap, wrapped, fn, held, gatedLen, regated>>
     /\ call' = Forget(call)
     /\ UNCHANGED <<policies, wallets, protocols, acctProtocols, mw>>

\* variant: the registry of the account is looked into first
getProtocolOutcomeAccountFirst(type, a, label) ==
  LET s == LookupSlot(type, label)
      manager == ManagerEntries(type, InstWallet(a), label)
      account == AccountEntries(a, type, label)
      g0 == [policyMap |-> policyMap, wrapped |-> wrapped, fn |-> fn, threw |-> FALSE]
      threw == _withPolicyGate(g0, policies, s, LookupScope(a, label)).threw
  IN IF account # {}
     THEN (IF threw THEN "TypeError" ELSE (CHOOSE e \in account : TRUE)[3])
     ELSE IF manager # {}
     THEN (IF threw THEN "TypeError" ELSE (CHOOSE e \in manager : TRUE)[4])
     ELSE NoProtocolMessage(type, label)

\* what the accessor returns (the class of the instance) or throws
getProtocolOutcome(type, a, label) ==
  LET s == LookupSlot(type, label)
      manager == ManagerEntries(type, InstWallet(a), label)
      account == AccountEntries(a, type, label)
      g0 == [policyMap |-> policyMap, wrapped |-> wrapped, fn |-> fn, threw |-> FALSE]
      threw == _withPolicyGate(g0, policies, s, LookupScope(a, label)).threw
  IN IF manager # {}
     THEN (IF threw THEN "TypeError" ELSE (CHOOSE e \in manager : TRUE)[4])
     ELSE IF account # {}
     THEN (IF threw THEN "TypeError" ELSE (CHOOSE e \in account : TRUE)[3])
     ELSE NoProtocolMessage(type, label)

getProtocolCall(type, a, label) ==
  getProtocol(type, a, label) /\ ret' = getProtocolOutcome(type, a, label)

LookupBatches == {<<"P5">>, <<"P4">>}

\* the registrations made on the manager: <<blockchain, label, class>>
ManagerRegistrations ==
  {<<"eth", "main", "SwapA">>, <<"eth", "main", "SwapB">>, <<"eth", "main", "LendingA">>,
   <<"ton", "alt", "BridgeA">>, <<"eth", "main", "Plain">>}

\* the registrations made on the account: <<label, class>>
AccountRegistrations ==
  {<<"main", "SwapB">>, <<"alt", "BridgeA">>, <<"alt", "FiatA">>, <<"main", "Plain">>}

InitLookup ==
  /\ policies = <<>>
  /\ policyMap = [i \in LookupInst |-> [m \in Methods |-> <<>>]]
  /\ wrapped = [i \in LookupInst |-> {}]
  /\ fn = [i \in LookupInst |-> [m \in Methods |-> 0]]
  /\ held = [i \in LookupInst |-> i = "accE0"]
  /\ gatedLen = [i \in LookupInst |-> IF i = "accE0" THEN 0 ELSE -1]
  /\ regated = [i \in LookupInst |-> FALSE]
  /\ call = IdleCall
  /\ wallets = {"eth", "ton"}
  /\ protocols = {}
  /\ acctProtocols = [i \in {"accE0"} |-> {}]
  /\ ret = "none"
  /\ mw = IdleMw

NextLookup ==
  \/ \E batch \in LookupBatches : registerPolicies(batch) /\ ret' = "this"
  \/ \E r \in ManagerRegistrations : registerProtocol(r[1], r[2], r[3]) /\ ret' = "this"
  \/ \E r \in AccountRegistrations :
       accountRegisterProtocol("accE0", r[1], r[2]) /\ ret' = "account"
  \/ \E type \in Types, label \in Labels : getProtocolCall(type, "accE0", label)

SpecLookup == InitLookup /\ [][NextLookup]_vars

\* the classes registered under a label for a type, manager-wide for the
\* blockchain of the account or on the account
RegisteredClasses(type, a, label) ==
  {e[4] : e \in ManagerEntries(type, InstWallet(a), label)}
    \cup {e[3] : e \in AccountEntries(a, type, label)}

\* C29: get<Type>Protocol(label) returns an instance of a class registered
\* under the label for the type, manager-wide for the blockchain of the
\* account or on the account, and throws "No <type> protocol registered for
\* label: <label>." when neither registry holds the label for the type; no
\* other error comes out of the lookup.
LookupReturnsRegisteredClassOrThrows ==
  [][\A type \in Types, label \in Labels :
       getProtocolCall(type, "accE0", label) =>
         IF RegisteredClasses(type, "accE0", label) # {}
         THEN ret' \in RegisteredClasses(type, "accE0", label)
         ELSE ret' = NoProtocolMessage(type, label)]_vars

(***************************************************************************)
(* The order of the steps of getAccount, with a policy that names an       *)
(* accessor and a policy without method, whose gating pass throws.         *)
(***************************************************************************)
OrderBatches == {<<"P3">>, <<"P4">>}

NextOrder ==
  \/ \E batch \in OrderBatches : registerPolicies(batch) /\ ret' = "this"
  \/ \E f \in Middlewares : registerMiddleware("eth", f) /\ ret' = "this"
  \/ \E i \in ScopeAccounts : getAccountBegin(i)
  \/ \E r \in {"ok", "throw"} : derivationEnd(r)
  \/ middlewareStart
  \/ \E r \in {"ok", "throw"} : middlewareEnd(r)
  \/ getAccountEnd

SpecOrder == InitMw /\ [][NextOrder]_vars

\* every middleware registered for the blockchain of the call has run to
\* completion
AllMiddlewaresCompleted ==
  LET reg == mw.reg[InstWallet(mw.inst)] IN
  /\ ~mw.running
  /\ mw.k = Len(reg)
  /\ Len(mw.log) = 2 * Len(reg)
  /\ \A n \in 1..Len(mw.log) : mw.log[n][1] # "threw"

\* C31: in getAccount a middleware starts only after the derivation has
\* resolved; accessors and gate are installed only after every middleware
\* of the blockchain has completed, the accessors before the gate (a
\* checkpoint the pass puts on an accessor is what stays installed), and the
\* account is returned only after the gating pass; when the wallet is
\* missing, the derivation rejects, a middleware throws or the gating pass
\* throws, the call rejects and no later step runs.
StepsRunInOrder ==
  [][/\ Len(mw'.log) > Len(mw.log) => mw.status = "middlewares"
     /\ <<policyMap, wrapped, fn, held, gatedLen>>' # <<policyMap, wrapped, fn, held, gatedLen>>
          => (mw.status = "middlewares" /\ AllMiddlewaresCompleted)
     /\ getAccountEnd =>
          /\ AllMiddlewaresCompleted
          /\ gatedLen'[mw.inst] = Len(policies)
          /\ \A m \in Accessors :
               (m \in wrapped'[mw.inst] \ wrapped[mw.inst]) => fn'[mw.inst][m] = 1
          /\ ret' = "account" => held'[mw.inst]
          /\ ret' # "account" => (ret' = "TypeError" /\ held' = held)
     /\ (\E i \in ScopeAccounts : getAccountBegin(i) /\ ret' # "pending") =>
          /\ ret' = "No wallet registered for blockchain: ton."
          /\ UNCHANGED <<policyMap, wrapped, fn, held, gatedLen, mw>>
     /\ derivationEnd("throw") =>
          /\ ret' = "DerivationError"
          /\ mw'.status = "idle" /\ mw'.log = <<>>
          /\ UNCHANGED <<policyMap, wrapped, fn, held, gatedLen>>
     /\ middlewareEnd("throw") =>
          /\ ret' = "MiddlewareError"
          /\ mw'.status = "idle" /\ mw'.k = mw.k
          /\ UNCHANGED <<policyMap, wrapped, fn, held, gatedLen>>]_vars

\* getAccount resolved for the eth account after the one eth middleware
\* completed, with the checkpoint on the accessor the policy names
ResolvedAfterMiddlewareWithGatedAccessor ==
  /\ ret = "account"
  /\ mw.inst = "accE0"
  /\ Len(mw.log) = 2
  /\ policies = <<"P3">>
  /\ "getSwapProtocol" \in wrapped["accE0"]
  /\ fn["accE0"]["getSwapProtocol"] = 1

(***************************************************************************)
(* The checkpoint on the accessors, on the manager of the first section:   *)
(* the wallet hands back the same account object for the same index.       *)
(***************************************************************************)
\* C32 as stated: on every account handed out, a member whose policy chain
\* is not empty is the checkpointed version.
ChainedMemberIsCheckpointed ==
  \A i \in Inst : \A m \in Methods :
    (held[i] /\ policyMap[i][m] # <<>>) => fn[i][m] >= 1

\* C33 as stated: one invocation of a gated method evaluates the policies
\* that were in the chain of the method when the invocation began, and no
\* policy a gating pass appended to the chain since; began is the chain the
\* checkpoint found when it was called.
InvocationEvaluatesChainAsItBegan ==
  (call.status # "idle" /\ call.depth = 1) =>
    /\ Len(call.evaluated) <= Len(call.began)
    /\ \A n \in 1..Len(call.evaluated) : call.evaluated[n] = call.began[n]

(***************************************************************************)
(* Wallet scope and protocol scope, on the manager of the target matching  *)
(* section.                                                                *)
(***************************************************************************)
\* C34: a policy with target { wallet: W } is in no chain of any protocol
\* instance, those obtained from an account of W included, and a policy
\* whose target names a protocol blockchain or label is in no chain of any
\* account.
WalletAndProtocolScopesAreDisjoint ==
  \A k \in 1..Len(policies), m \in Methods :
    LET p == policies[k]
        t == PolicyDef(p).target
    IN /\ t.wallet # "" =>
            \A s \in ProtocolInst : ~Includes(policyMap[s][m], p)
       /\ (t.hasProtocol /\ (t.blockchain # "" \/ t.label # "")) =>
            \A a \in ScopeAccounts : ~Includes(policyMap[a][m], p)

\* the policy with target { wallet: "eth" } gates send on the eth account
\* and nothing on the protocol instance obtained from that account
WalletPolicyBesideEthProtocol ==
  /\ policies = <<"T07">>
  /\ Covered("accE0", 1)
  /\ Covered("swE0main", 1)
  /\ policyMap["accE0"]["send"] = <<"T07">>
  /\ wrapped["swE0main"] = {}

(***************************************************************************)
(* dispose: a manager that starts without wallet; wallets, a policy, a     *)
(* middleware and a protocol are registered, accounts and fee rates are    *)
(* asked for, and the manager is disposed.                                 *)
(***************************************************************************)
disposeCall == dispose /\ ret' = Undefined

InitDispose ==
  /\ policies = <<>>
  /\ policyMap = [i \in ScopeAccounts |-> [m \in Methods |-> <<>>]]
  /\ wrapped = [i \in ScopeAccounts |-> {}]
  /\ fn = [i \in ScopeAccounts |-> [m \in Methods |-> 0]]
  /\ held = [i \in ScopeAccounts |-> FALSE]
  /\ gatedLen = [i \in ScopeAccounts |-> -1]
  /\ regated = [i \in ScopeAccounts |-> FALSE]
  /\ call = IdleCall
  /\ wallets = {}
  /\ protocols = {}
  /\ acctProtocols = [i \in ScopeAccounts |-> {}]
  /\ ret = "none"
  /\ mw = IdleMw

NextDispose ==
  \/ \E b \in {"eth", "ton"} : registerWallet(b) /\ ret' = "this"
  \/ disposeCall
  \/ registerPolicies(<<"P1">>) /\ ret' = "this"
  \/ registerMiddleware("eth", "mwA") /\ ret' = "this"
  \/ registerProtocol("eth", "main", "SwapA") /\ ret' = "this"
  \/ \E i \in ScopeAccounts : getAccountBegin(i)
  \/ \E r \in {"ok", "throw"} : derivationEnd(r)
  \/ middlewareStart
  \/ \E r \in {"ok", "throw"} : middlewareEnd(r)
  \/ getAccountEnd
  \/ \E b \in {"eth", "ton"} : getFeeRates(b)

SpecDispose == InitDispose /\ [][NextDispose]_vars

\* C35: dispose calls dispose once on every registered wallet and
\* unregisters them all, leaving policies, middlewares and protocols as they
\* are; a getAccount or getFeeRates call for a blockchain that has no wallet
\* rejects with the no-wallet error, and a blockchain gets a wallet again
\* only by registerWallet.
DisposeUnregistersEveryWallet ==
  [][/\ disposeCall =>
          /\ \A b \in {"eth", "ton"} : mw'.disposed[b] = (IF b \in wallets THEN 1 ELSE 0)
          /\ wallets' = {}
          /\ mw'.reg = mw.reg
          /\ UNCHANGED <<policies, protocols, acctProtocols>>
     /\ \A b \in {"eth", "ton"} :
          /\ (b \notin wallets /\ b \in wallets') => (registerWallet(b) /\ ret' = "this")
          /\ (b \notin wallets /\ getFeeRates(b)) => ret' = NoWalletMessage(b)
          /\ \A i \in ScopeAccounts :
               (b \notin wallets /\ InstWallet(i) = b /\ getAccountBegin(i)) =>
                 (ret' = NoWalletMessage(b) /\ UNCHANGED <<held, gatedLen, mw>>)]_vars

\* after two wallets were disposed, once each, a getAccount call for "eth"
\* is rejected; the policy, the middleware and the protocol are still
\* registered and the account derived earlier is still held
EthRejectedAfterDispose ==
  /\ ret = "No wallet registered for blockchain: eth."
  /\ wallets = {}
  /\ mw.disposed = [b \in {"eth", "ton"} |-> 1]
  /\ policies = <<"P1">>
  /\ mw.reg["eth"] = <<"mwA">>
  /\ protocols # {}
  /\ held["accE0"]

(***************************************************************************)
(* Manager-wide and account-level registrations of one label, on the       *)
(* manager of the protocol lookup section.                                 *)
(***************************************************************************)
\* the gate state a newly constructed instance has after one gating pass
FreshlyGated(s, scope) ==
  _withPolicyGate([policyMap |-> [policyMap EXCEPT ![s] = [m \in Methods |-> <<>>]],
                   wrapped |-> [wrapped EXCEPT ![s] = {}],
                   fn |-> [fn EXCEPT ![s] = [m \in Methods |-> 0]], threw |-> FALSE],
                  policies, s, scope)

\* C36: with a label registered manager-wide for the blockchain of the
\* account, the instance a lookup returns is of the manager-wide class,
\* whatever is registered on the account, and its gate state is that of a
\* new instance after one gating pass, never that of an instance gated
\* before; with the label registered on the account only, the lookup
\* returns the instance of that registration with the gate state it had,
\* gated once more.
ManagerWideRegistrationComesFirst ==
  [][\A type \in Types, label \in Labels :
       getProtocolCall(type, "accE0", label) =>
         LET s == LookupSlot(type, label)
             manager == ManagerEntries(type, "eth", label)
             account == AccountEntries("accE0", type, label)
             scope == LookupScope("accE0", label)
             again == _withPolicyGate([policyMap |-> policyMap, wrapped |-> wrapped,
                                       fn |-> fn, threw |-> FALSE], policies, s, scope)
         IN /\ manager # {} =>
                 /\ ret' # "TypeError" => \E e \in manager : ret' = e[4]
                 /\ policyMap'[s] = FreshlyGated(s, scope).policyMap[s]
                 /\ wrapped'[s] = FreshlyGated(s, scope).wrapped[s]
                 /\ fn'[s] = FreshlyGated(s, scope).fn[s]
                 /\ ~regated'[s]
            /\ (manager = {} /\ account # {}) =>
                 /\ ret' # "TypeError" => \E e \in account : ret' = e[3]
                 /\ policyMap'[s] = again.policyMap[s]
                 /\ wrapped'[s] = again.wrapped[s]
                 /\ fn'[s] = again.fn[s]
                 /\ regated'[s] = (gatedLen[s] = Len(policies))]_vars

\* the swap label "main" is registered with SwapB on the account and with
\* SwapA manager-wide, and the lookup returned an instance of SwapA
ManagerClassReturnedOverAccountClass ==
  /\ ret = "SwapA"
  /\ <<"swap", "eth", "main", "SwapA">> \in protocols
  /\ <<"swap", "main", "SwapB">> \in acctProtocols["accE0"]

(***************************************************************************)
(* Instances no policy matches: the accounts of two blockchains, a policy  *)
(* with target { wallet: "eth" } and a policy without target that names    *)
(* "swap", which no account exposes.                                       *)
(***************************************************************************)
NoMatchBatches == {<<"P2">>, <<"P6">>}

NextNoMatch ==
  \/ \E batch \in NoMatchBatches : registerPolicies(batch) /\ ret' = "this"
  \/ \E i \in ScopeAccounts : getAccount(i) /\ ret' = getAccountOutcome(i)
  \/ \E i \in ScopeAccounts, m \in Methods, args \in ArgLists :
       invoke(i, m, args) /\ UNCHANGED ret
  \/ \E j \in 1..Len(call.results), r \in EvalResults : settle(j, r) /\ UNCHANGED ret

SpecNoMatch == InitScope /\ [][NextNoMatch]_vars

\* entry k of the registered list matches instance i: by its target, and by
\* a method it names that the instance exposes (every method, when it names
\* none)
MatchesInstance(k, i) ==
  LET d == PolicyDef(policies[k]) IN
  /\ TargetMatches(d.target, Scope(i))
  /\ \/ d.methodKind = "none"
     \/ \E m \in Methods : Names(policies[k], m) /\ IsCallable(i, m)

\* C37: on an instance whose gating passes went over no matching policy, no
\* member is replaced and no chain exists; a call on it runs the original
\* once with the caller's arguments and receiver, has the outcome of the
\* original, and evaluates no policy.
UnmatchedInstanceIsLeftAsItWas ==
  \A i \in ScopeAccounts :
    (held[i] /\ \A k \in 1..gatedLen[i] : ~MatchesInstance(k, i)) =>
      /\ wrapped[i] = {}
      /\ \A m \in Methods : fn[i][m] = 0 /\ policyMap[i][m] = <<>>
      /\ (call.status # "idle" /\ call.inst = i) =>
           /\ call.evaluated = <<>>
           /\ call.status \in {"returned", "failed"}
           /\ call.origCalls = 1
           /\ call.origArgs = call.args
           /\ call.origThis = i
           /\ call.outcome = call.origOutcome

\* send was called on the ton account, which was gated against the eth
\* policy and the policy that names swap: the original returned, nothing
\* was evaluated
TonSendReturnedUngated ==
  /\ policies = <<"P2", "P6">>
  /\ Covered("accT0", 2)
  /\ call.inst = "accT0"
  /\ call.method = "send"
  /\ call.status = "returned"
  /\ call.evaluated = <<>>

(***************************************************************************)
(* Account-level registrations across getAccount: the manager of the       *)
(* protocol lookup section, where the wallet hands back the same account   *)
(* object when accE0 is derived again.                                     *)
(***************************************************************************)
NextRetrieve ==
  \/ registerPolicies(<<"P5">>) /\ ret' = "this"
  \/ \E r \in AccountRegistrations :
       accountRegisterProtocol("accE0", r[1], r[2]) /\ ret' = "account"
  \/ getAccount("accE0") /\ ret' = getAccountOutcome("accE0")
  \/ \E type \in Types, label \in Labels : getProtocolCall(type, "accE0", label)

SpecRetrieve == InitLookup /\ [][NextRetrieve]_vars

\* get<Type>Protocol(label) on the account finds a registration
Retrievable(type, a, label) ==
  getProtocolOutcome(type, a, label) # NoProtocolMessage(type, label)

\* C38 as stated: a protocol registered on the account under a label stays
\* retrievable through get<Type>Protocol(label) whatever operation follows.
AccountProtocolStaysRetrievable ==
  [][\A type \in Types, label \in Labels :
       (AccountEntries("accE0", type, label) # {} /\ Retrievable(type, "accE0", label))
         => Retrievable(type, "accE0", label)']_vars

====
